---- MODULE Spec2Model ----
(***************************************************************************)
(* be-our-guest: an asynchronous service container (src/src/Services.ts).  *)
(*                                                                         *)
(* The registry core keeps three maps (classes, singletonCallbacks,        *)
(* singletons) and resolves names with get; the lifecycle orchestrator     *)
(* (add) instantiates a batch of service providers, runs their register     *)
(* chains and then their boot chains.  JavaScript runs each synchronous     *)
(* stretch of code to completion, so one action is one such stretch: the    *)
(* synchronous body of a method, or the continuation run when an awaited    *)
(* promise settles.                                                         *)
(***************************************************************************)
EXTENDS Integers, Sequences, FiniteSets, TLC

\* ---------------------------------------------------------------- bounds
\* bind, singleton, instance and get calls made on one container
MaxCalls == 4
\* provider definitions in one batch
MaxProviders == 2
\* get calls the application makes once add has finished
MaxGetsAfterAdd == 1
\* factory invocations that are in their synchronous part at one time
MaxDepth == 2

\* ------------------------------------------------------------ vocabulary
None == "none"

Names == {"a", "b"}

\* "f" and "g" are async factories (they return a promise that settles
\* later); "thrower" is a plain function that throws before returning.
Factories == {"f", "g", "thrower"}

\* Async factories that call services.get before their first await:
\* "needsA" builds its object around the service "a"
\* (async () => new ObjectB(await services.get('a'))), "self" asks for the
\* name it is registered under.
DependentFactories == {"needsA", "self"}

\* Async factories that first await something else and, when they resume,
\* call services.get for the name they are registered under.
SuspendingFactories == {"selfLater"}

\* The name factory f, registered under n, gets (None: it gets nothing).
DepOf(f, n) == IF f = "needsA" THEN "a" ELSE IF f = "self" THEN n ELSE None

\* Values assigned to the testProp of an ObjectB.
PropValues == {10, 20}

\* Arguments a caller passes to get.
Args == {1, 2}

\* Objects handed to instance(); objects built by a factory invocation are
\* identified by the (positive) index of the promise of that invocation.
InstanceValues == {-1, -2}

VARIABLES
    overrides,           \* the log_overrides given to new Services()
    suppress,            \* Log.suppress
    infoFunc,            \* Log.infoFunc: the override or the console default
    errorFunc,           \* Log.errorFunc: the override or the console default
    infoLog,             \* calls of Log.info, in order
    errorLog,            \* calls of Log.error, in order
    infoSink,            \* calls of overrides.info
    errorSink,           \* calls of overrides.error
    console,             \* calls of console.info and of console.error
    classes,             \* Services.classes: name -> factory
    singletonCallbacks,  \* Services.singletonCallbacks: name -> factory
    singletons,          \* Services.singletons: name -> promise (0: no entry)
    promises,            \* every promise made by a factory or by instance()
    invlog,              \* factory invocations, in order
    calls,               \* get calls, in order, with the promise each returned
    regs,                \* number of bind, singleton and instance calls so far
    stack,               \* factory invocations that have not returned yet
    batch,               \* the provider definitions passed to add
    addState,            \* the promise returned by add
    prov,                \* the state of each provider of the batch
    trace,               \* what add did in its synchronous stretches, in order
    other,               \* another add call in flight on the same container
    earlier              \* what adding the batch in another order came to

logVars == <<overrides, suppress, infoFunc, errorFunc, infoLog, errorLog,
             infoSink, errorSink, console>>
registryVars == <<classes, singletonCallbacks, singletons, promises, invlog, calls, regs,
                  stack>>
lifecycleVars == <<batch, addState, prov, trace, other, earlier>>
vars == <<logVars, registryVars, lifecycleVars>>

\* ------------------------------------------------------------------ Log
\* A log call: its message, and the provider (its position in the batch)
\* or the service name the message is about.
LogEntry(msg, provider, name) == [msg |-> msg, provider |-> provider, name |-> name]

\* The log_overrides argument: absent, or an object with the suppress flag
\* and the two sink functions.
LogOverrides(given, s, info, error) ==
    [given |-> given, suppress |-> s, info |-> info, error |-> error]

LogOverridesChoices ==
    {LogOverrides(FALSE, FALSE, FALSE, FALSE),
     LogOverrides(TRUE, TRUE, TRUE, TRUE),
     LogOverrides(TRUE, FALSE, TRUE, TRUE)}

\* overrides?.suppress ?? false
SuppressOf(o) == o.given /\ o.suppress

\* A sink chosen with the bug of always taking the console default.
SinkOf_Console(o, sink) == "console"

\* overrides?.info ?? console.info, overrides?.error ?? console.error
SinkOf(o, sink) ==
    IF o.given /\ (IF sink = "info" THEN o.info ELSE o.error) THEN "override"
    ELSE "console"

\* new Log(overrides)
NewLog ==
    /\ overrides \in LogOverridesChoices
    /\ suppress = SuppressOf(overrides)
    /\ infoFunc = SinkOf(overrides, "info")
    /\ errorFunc = SinkOf(overrides, "error")
    /\ infoLog = <<>> /\ errorLog = <<>>
    /\ infoSink = 0 /\ errorSink = 0
    /\ console = [info |-> 0, error |-> 0]

\* Log.info with the bug of ignoring the suppress flag.
LogInfo_Unsuppressed(msgs) ==
    /\ infoLog' = infoLog \o msgs
    /\ IF infoFunc = "override"
       THEN infoSink' = infoSink + Len(msgs) /\ console' = console
       ELSE infoSink' = infoSink /\ console' = [console EXCEPT !.info = @ + Len(msgs)]
    /\ UNCHANGED <<overrides, suppress, infoFunc, errorFunc, errorLog, errorSink>>

\* Log.info, called once per entry of msgs: forwards to infoFunc unless
\* suppressed.
LogInfo(msgs) ==
    /\ infoLog' = infoLog \o msgs
    /\ IF suppress
       THEN infoSink' = infoSink /\ console' = console
       ELSE IF infoFunc = "override"
       THEN infoSink' = infoSink + Len(msgs) /\ console' = console
       ELSE infoSink' = infoSink /\ console' = [console EXCEPT !.info = @ + Len(msgs)]
    /\ UNCHANGED <<overrides, suppress, infoFunc, errorFunc, errorLog, errorSink>>

\* Log.error: forwards to errorFunc unless suppressed.
LogError(entry) ==
    /\ errorLog' = Append(errorLog, entry)
    /\ IF suppress
       THEN errorSink' = errorSink /\ console' = console
       ELSE IF errorFunc = "override"
       THEN errorSink' = errorSink + 1 /\ console' = console
       ELSE errorSink' = errorSink /\ console' = [console EXCEPT !.error = @ + 1]
    /\ UNCHANGED <<overrides, suppress, infoFunc, errorFunc, infoLog, infoSink>>

\* ------------------------------------------------------------- promises
Pending == "pending"
Resolved == "resolved"
Rejected == "rejected"

\* The promise a factory invocation returns: pending until the factory's
\* asynchronous work settles; waiters is the number of get callers that
\* were awaiting it when it settled.  dep is the promise the factory is
\* awaiting (0: none, -1: a rejection carrying no value), holds the
\* service the object it built was constructed around, prop the testProp
\* of that object.
FactoryPromise(f, n, a, via) ==
    [state |-> Pending, value |-> 0, by |-> f, name |-> n, arg |-> a, via |-> via,
     waiters |-> 0, dep |-> 0, holds |-> 0, prop |-> 0]

\* Promise.resolve(dependency)
ResolvedPromise(n, v) ==
    [state |-> Resolved, value |-> v, by |-> "instance", name |-> n, arg |-> 0,
     via |-> "instance", waiters |-> 0, dep |-> 0, holds |-> 0, prop |-> 0]

\* The factory invocation that is executing (0: the application).
Caller == IF stack = <<>> THEN 0 ELSE stack[Len(stack)].promise

\* A get call: who made it, the branch it took and the promise it returned
\* (0: a rejection carrying no value).
Call(n, a, path, result) ==
    [name |-> n, arg |-> a, path |-> path, result |-> result, from |-> Caller]

\* The get calls made by the application.
AppCalls == Cardinality({c \in 1..Len(calls) : calls[c].from = 0})

\* A factory invocation in its synchronous part: the promise it will
\* return, the name it was invoked for, whether get stores that promise in
\* singletons once the factory has returned, and the name the factory gets.
Frame(p, n, store, dep) == [promise |-> p, name |-> n, store |-> store, dep |-> dep]

\* Factory f, invoked for n, starts running: a dependent factory stays on
\* the stack until its get call has returned.
Enter(f, n, store) ==
    IF DepOf(f, n) = None THEN stack' = stack
    ELSE /\ Len(stack) < MaxDepth
         /\ stack' = Append(stack, Frame(Len(promises) + 1, n, store, DepOf(f, n)))

\* What the caller awaiting call c has: nothing yet, the resolved value, or
\* a rejection.
Outcome(c) ==
    LET r == calls[c].result IN
    IF r = 0 THEN [state |-> Rejected, value |-> 0]
    ELSE [state |-> promises[r].state, value |-> promises[r].value]

Invocation(f, n, a, via) ==
    [factory |-> f, name |-> n, arg |-> a, via |-> via, call |-> Len(calls) + 1]

\* --------------------------------------------------------- registration
\* bind with the bug of unregistering the name from the other two maps.
Bind_Exclusive(n, f) ==
    /\ regs + AppCalls < MaxCalls
    /\ regs' = regs + 1
    /\ classes' = [classes EXCEPT ![n] = f]
    /\ singletonCallbacks' = [singletonCallbacks EXCEPT ![n] = None]
    /\ singletons' = [singletons EXCEPT ![n] = 0]
    /\ UNCHANGED <<promises, invlog, calls, stack>>
    /\ UNCHANGED <<logVars, lifecycleVars>>

\* Services.bind
Bind(n, f) ==
    /\ regs + AppCalls < MaxCalls
    /\ regs' = regs + 1
    /\ classes' = [classes EXCEPT ![n] = f]
    /\ UNCHANGED <<singletonCallbacks, singletons, promises, invlog, calls, stack>>
    /\ UNCHANGED <<logVars, lifecycleVars>>

\* singleton with the bug of invoking the callback at registration and
\* memoizing what it returned.
Singleton_Eager(n, f) ==
    /\ regs + AppCalls < MaxCalls
    /\ regs' = regs + 1
    /\ singletonCallbacks' = [singletonCallbacks EXCEPT ![n] = f]
    /\ invlog' = Append(invlog, Invocation(f, n, 0, "singleton"))
    /\ IF f = "thrower"
       THEN promises' = promises /\ singletons' = singletons
       ELSE /\ promises' = Append(promises, FactoryPromise(f, n, 0, "singleton"))
            /\ singletons' = [singletons EXCEPT ![n] = Len(promises) + 1]
    /\ UNCHANGED <<classes, calls, stack>>
    /\ UNCHANGED <<logVars, lifecycleVars>>

\* Services.singleton
Singleton(n, f) ==
    /\ regs + AppCalls < MaxCalls
    /\ regs' = regs + 1
    /\ singletonCallbacks' = [singletonCallbacks EXCEPT ![n] = f]
    /\ UNCHANGED <<classes, singletons, promises, invlog, calls, stack>>
    /\ UNCHANGED <<logVars, lifecycleVars>>

\* instance with the bug of dropping the class binding of the name, so
\* that the supplied instance is what get finds.
Instance_Unbinding(n, v) ==
    /\ regs + AppCalls < MaxCalls
    /\ regs' = regs + 1
    /\ promises' = Append(promises, ResolvedPromise(n, v))
    /\ singletons' = [singletons EXCEPT ![n] = Len(promises) + 1]
    /\ classes' = [classes EXCEPT ![n] = None]
    /\ UNCHANGED <<singletonCallbacks, invlog, calls, stack>>
    /\ UNCHANGED <<logVars, lifecycleVars>>

\* Services.instance
Instance(n, v) ==
    /\ regs + AppCalls < MaxCalls
    /\ regs' = regs + 1
    /\ promises' = Append(promises, ResolvedPromise(n, v))
    /\ singletons' = [singletons EXCEPT ![n] = Len(promises) + 1]
    /\ UNCHANGED <<classes, singletonCallbacks, invlog, calls, stack>>
    /\ UNCHANGED <<logVars, lifecycleVars>>

\* ------------------------------------------------------------------ get
\* classesHandler with the bug of caching what the closure returned.
ClassesHandler_Memoizing(n, a) ==
    LET f == classes[n] IN
    /\ invlog' = Append(invlog, Invocation(f, n, a, "class"))
    /\ IF f = "thrower"
       THEN /\ promises' = promises
            /\ singletons' = singletons
            /\ calls' = Append(calls, Call(n, a, "class", 0))
            /\ stack' = stack
       ELSE /\ promises' = Append(promises, FactoryPromise(f, n, a, "class"))
            /\ singletons' = [singletons EXCEPT ![n] = Len(promises) + 1]
            /\ calls' = Append(calls, Call(n, a, "class", Len(promises) + 1))
            /\ Enter(f, n, FALSE)
    /\ UNCHANGED <<classes, singletonCallbacks, regs>>
    /\ UNCHANGED logVars

\* classesHandler with the bug of calling the closure without the
\* arguments of the get call.
ClassesHandler_NoArgs(n, a) ==
    LET f == classes[n] IN
    /\ invlog' = Append(invlog, Invocation(f, n, 0, "class"))
    /\ IF f = "thrower"
       THEN /\ promises' = promises
            /\ calls' = Append(calls, Call(n, a, "class", 0))
            /\ stack' = stack
       ELSE /\ promises' = Append(promises, FactoryPromise(f, n, 0, "class"))
            /\ calls' = Append(calls, Call(n, a, "class", Len(promises) + 1))
            /\ Enter(f, n, FALSE)
    /\ UNCHANGED <<classes, singletonCallbacks, singletons, regs>>
    /\ UNCHANGED logVars

\* Services.classesHandler: invoke the class closure; the async wrapper
\* turns a synchronous throw into a rejection.
ClassesHandler(n, a) ==
    LET f == classes[n] IN
    /\ invlog' = Append(invlog, Invocation(f, n, a, "class"))
    /\ IF f = "thrower"
       THEN /\ promises' = promises
            /\ calls' = Append(calls, Call(n, a, "class", 0))
            /\ stack' = stack
       ELSE /\ promises' = Append(promises, FactoryPromise(f, n, a, "class"))
            /\ calls' = Append(calls, Call(n, a, "class", Len(promises) + 1))
            /\ Enter(f, n, FALSE)
    /\ UNCHANGED <<classes, singletonCallbacks, singletons, regs>>
    /\ UNCHANGED logVars

\* The second branch with the bug of handing the memoized promise out once
\* and dropping the entry.
GetMemoized_Consuming(n, a) ==
    /\ calls' = Append(calls, Call(n, a, "memo", singletons[n]))
    /\ singletons' = [singletons EXCEPT ![n] = 0]
    /\ UNCHANGED <<classes, singletonCallbacks, promises, invlog, regs, stack>>
    /\ UNCHANGED logVars

\* The second branch with the bug of retrying: a memoized promise that has
\* rejected is dropped and the singleton callback is invoked again.
GetMemoized_Retrying(n, a) ==
    LET f == singletonCallbacks[n] IN
    IF promises[singletons[n]].state = Rejected /\ f \in {"f", "g"}
    THEN /\ invlog' = Append(invlog, Invocation(f, n, a, "singleton"))
         /\ promises' = Append(promises, FactoryPromise(f, n, a, "singleton"))
         /\ singletons' = [singletons EXCEPT ![n] = Len(promises) + 1]
         /\ calls' = Append(calls, Call(n, a, "singleton", Len(promises) + 1))
         /\ UNCHANGED <<classes, singletonCallbacks, regs, stack>>
         /\ UNCHANGED logVars
    ELSE /\ calls' = Append(calls, Call(n, a, "memo", singletons[n]))
         /\ UNCHANGED <<classes, singletonCallbacks, singletons, promises, invlog, regs,
                        stack>>
         /\ UNCHANGED logVars

\* The second branch with a cycle check: a factory invocation that asks
\* for its own memoized promise gets a rejection instead.
GetMemoized_CycleDetecting(n, a) ==
    /\ calls' = Append(calls, Call(n, a, "memo",
                                   IF Caller = singletons[n] THEN 0 ELSE singletons[n]))
    /\ UNCHANGED <<classes, singletonCallbacks, singletons, promises, invlog, regs, stack>>
    /\ UNCHANGED logVars

\* Services.get, second branch: the name has a memoized promise.
GetMemoized(n, a) ==
    /\ calls' = Append(calls, Call(n, a, "memo", singletons[n]))
    /\ UNCHANGED <<classes, singletonCallbacks, singletons, promises, invlog, regs, stack>>
    /\ UNCHANGED logVars

\* The third branch with the bug of not storing the promise.
GetSingleton_NoStore(n, a) ==
    LET f == singletonCallbacks[n] IN
    /\ invlog' = Append(invlog, Invocation(f, n, a, "singleton"))
    /\ IF f = "thrower"
       THEN /\ promises' = promises
            /\ calls' = Append(calls, Call(n, a, "singleton", 0))
            /\ stack' = stack
       ELSE /\ promises' = Append(promises, FactoryPromise(f, n, a, "singleton"))
            /\ calls' = Append(calls, Call(n, a, "singleton", Len(promises) + 1))
            /\ Enter(f, n, FALSE)
    /\ UNCHANGED <<classes, singletonCallbacks, singletons, regs>>
    /\ UNCHANGED logVars

\* Services.get, third branch: invoke the singleton callback and, when it
\* has returned, store its promise, before anything is awaited.  A callback
\* that throws leaves get before the promise is stored; a callback that
\* calls get has not returned yet.
GetSingleton(n, a) ==
    LET f == singletonCallbacks[n] IN
    /\ invlog' = Append(invlog, Invocation(f, n, a, "singleton"))
    /\ IF f = "thrower"
       THEN /\ promises' = promises
            /\ singletons' = singletons
            /\ calls' = Append(calls, Call(n, a, "singleton", 0))
            /\ stack' = stack
       ELSE /\ promises' = Append(promises, FactoryPromise(f, n, a, "singleton"))
            /\ singletons' = IF DepOf(f, n) = None
                             THEN [singletons EXCEPT ![n] = Len(promises) + 1]
                             ELSE singletons
            /\ calls' = Append(calls, Call(n, a, "singleton", Len(promises) + 1))
            /\ Enter(f, n, TRUE)
    /\ UNCHANGED <<classes, singletonCallbacks, regs>>
    /\ UNCHANGED logVars

\* The last branch with the bug of rejecting without a log call.
GetMissing_Silent(n, a) ==
    /\ calls' = Append(calls, Call(n, a, "missing", 0))
    /\ UNCHANGED <<classes, singletonCallbacks, singletons, promises, invlog, regs, stack>>
    /\ UNCHANGED logVars

\* The last branch with the bug of memoizing the rejection it returns.
GetMissing_Memoizing(n, a) ==
    /\ LogError(LogEntry("does not exist in the container", 0, n))
    /\ promises' = Append(promises, [FactoryPromise(None, n, a, "missing")
                                       EXCEPT !.state = Rejected])
    /\ singletons' = [singletons EXCEPT ![n] = Len(promises) + 1]
    /\ calls' = Append(calls, Call(n, a, "missing", Len(promises) + 1))
    /\ UNCHANGED <<classes, singletonCallbacks, invlog, regs, stack>>

\* Services.get, last branch: nothing is registered under the name.
GetMissing(n, a) ==
    /\ LogError(LogEntry("does not exist in the container", 0, n))
    /\ calls' = Append(calls, Call(n, a, "missing", 0))
    /\ UNCHANGED <<classes, singletonCallbacks, singletons, promises, invlog, regs, stack>>

\* get with the bug of consulting the singleton callbacks before the
\* memoized promises.
Get_CallbackFirst(n, a) ==
    /\ stack # <<>> \/ regs + AppCalls < MaxCalls
    /\ IF classes[n] # None THEN ClassesHandler(n, a)
       ELSE IF singletonCallbacks[n] # None THEN GetSingleton(n, a)
       ELSE IF singletons[n] # 0 THEN GetMemoized(n, a)
       ELSE GetMissing(n, a)
    /\ UNCHANGED lifecycleVars

\* get with the bug of consulting the memoized promises before the class
\* bindings.
Get_MemoFirst(n, a) ==
    /\ stack # <<>> \/ regs + AppCalls < MaxCalls
    /\ IF singletons[n] # 0 THEN GetMemoized(n, a)
       ELSE IF classes[n] # None THEN ClassesHandler(n, a)
       ELSE IF singletonCallbacks[n] # None THEN GetSingleton(n, a)
       ELSE GetMissing(n, a)
    /\ UNCHANGED lifecycleVars

\* Services.get
Get(n, a) ==
    /\ stack # <<>> \/ regs + AppCalls < MaxCalls
    /\ IF classes[n] # None THEN ClassesHandler(n, a)
       ELSE IF singletons[n] # 0 THEN GetMemoized(n, a)
       ELSE IF singletonCallbacks[n] # None THEN GetSingleton(n, a)
       ELSE GetMissing(n, a)
    /\ UNCHANGED lifecycleVars

\* The get call a dependent factory makes in its synchronous part, on
\* behalf of the invocation on top of the stack; it passes no arguments
\* (arg 0).
NestedGet ==
    /\ stack # <<>>
    /\ \A c \in 1..Len(calls) : calls[c].from # Caller
    /\ Get(stack[Len(stack)].dep, 0)

\* The return with the bug of get not storing the promise of a singleton
\* callback that called get.
Return_NoStore ==
    /\ stack # <<>>
    /\ LET fr == stack[Len(stack)]
           C == {c \in 1..Len(calls) : calls[c].from = fr.promise} IN
       /\ C # {}
       /\ LET q == calls[CHOOSE c \in C : TRUE].result IN
          promises' = [promises EXCEPT ![fr.promise].dep = IF q = 0 THEN -1 ELSE q]
       /\ singletons' = singletons
       /\ stack' = SubSeq(stack, 1, Len(stack) - 1)
    /\ UNCHANGED <<classes, singletonCallbacks, invlog, calls, regs>>
    /\ UNCHANGED <<logVars, lifecycleVars>>

\* The get call of the invocation on top of the stack has returned: the
\* factory awaits what it got and so returns its own promise; a get that
\* invoked it as a singleton callback now stores that promise.
Return ==
    /\ stack # <<>>
    /\ LET fr == stack[Len(stack)]
           C == {c \in 1..Len(calls) : calls[c].from = fr.promise} IN
       /\ C # {}
       /\ LET q == calls[CHOOSE c \in C : TRUE].result IN
          promises' = [promises EXCEPT ![fr.promise].dep = IF q = 0 THEN -1 ELSE q]
       /\ singletons' = IF fr.store THEN [singletons EXCEPT ![fr.name] = fr.promise]
                        ELSE singletons
       /\ stack' = SubSeq(stack, 1, Len(stack) - 1)
    /\ UNCHANGED <<classes, singletonCallbacks, invlog, calls, regs>>
    /\ UNCHANGED <<logVars, lifecycleVars>>

\* A suspended factory invocation resumes (what it first awaited has
\* resolved) and is about to call services.get for its own name; its
\* promise was returned, and stored if it is a singleton callback, when it
\* suspended.
Resume(p) ==
    /\ stack = <<>>
    /\ promises[p].by \in SuspendingFactories
    /\ promises[p].state = Pending
    /\ promises[p].dep = 0
    /\ \A c \in 1..Len(calls) : calls[c].from # p
    /\ stack' = <<Frame(p, promises[p].name, FALSE, promises[p].name)>>
    /\ UNCHANGED <<classes, singletonCallbacks, singletons, promises, invlog, calls, regs>>
    /\ UNCHANGED <<logVars, lifecycleVars>>

\* The asynchronous work of a factory invocation settles: it resolves with
\* the object this invocation built, or it rejects.  A factory that is
\* awaiting a promise goes on when that promise has settled: it builds its
\* object around the value it got, or rejects with the error it got.  A
\* suspending factory that has not resumed can only reject (what it first
\* awaited was rejected).
Settle(p, ok) ==
    LET q == promises[p].dep IN
    /\ promises[p].state = Pending
    /\ \A k \in 1..Len(stack) : stack[k].promise # p
    /\ q = -1 => ~ok
    /\ (q = 0 /\ promises[p].by \in SuspendingFactories) => ~ok
    /\ q > 0 => /\ promises[q].state # Pending
                /\ promises[q].state = Rejected => ~ok
    /\ LET k == Cardinality({c \in 1..Len(calls) : calls[c].result = p}) IN
       promises' = [promises EXCEPT ![p] =
                      IF ok THEN [@ EXCEPT !.state = Resolved, !.value = p, !.waiters = k,
                                           !.holds = IF q > 0 THEN promises[q].value ELSE 0]
                            ELSE [@ EXCEPT !.state = Rejected, !.waiters = k]]
    /\ UNCHANGED <<classes, singletonCallbacks, singletons, invlog, calls, regs, stack>>
    /\ UNCHANGED <<logVars, lifecycleVars>>

\* A caller that got the ObjectB built by invocation p assigns its testProp.
SetTestProp(p, v) ==
    /\ promises[p].state = Resolved
    /\ promises[p].by = "needsA"
    /\ \E c \in 1..Len(calls) : calls[c].result = p /\ calls[c].from = 0
    /\ promises[p].prop # v
    /\ promises' = [promises EXCEPT ![p].prop = v]
    /\ UNCHANGED <<classes, singletonCallbacks, singletons, invlog, calls, regs, stack>>
    /\ UNCHANGED <<logVars, lifecycleVars>>

\* ------------------------------------------------------------ providers
RegisterChain == <<"beforeRegister", "register", "afterRegister">>
BootChain == <<"beforeBoot", "boot", "afterBoot">>
RegisterHooks == {"beforeRegister", "register", "afterRegister"}
BootHooks == {"beforeBoot", "boot", "afterBoot"}
OptionalHooks == {"beforeRegister", "afterRegister", "beforeBoot", "boot", "afterBoot"}

\* A provider definition: what its static defer() returns ("none": the
\* class has no static defer; "instance": the class declares defer as an
\* instance method, as the test suite's DeferTestProvider does, so the
\* constructor has none), which optional hooks it declares, and the hook
\* that throws or rejects ("none": every hook succeeds).
ProviderDef(defer, has, fail) == [defer |-> defer, has |-> has, fail |-> fail]

\* A provider class of definition d whose register hook does
\* services.bind(n, f).
Provider(d, n, f) ==
    [defer |-> d.defer, has |-> d.has, fail |-> d.fail, name |-> n, factory |-> f]

HookSets == {{}, {"boot"}, {"beforeBoot", "afterBoot"}, OptionalHooks}

\* The definitions a batch is drawn from: providers without a static defer,
\* with each set of hooks and each place to fail, and the test suite's
\* provider with all hooks and a throwing boot under each defer result.
ProviderDefs ==
    {d \in [defer : {"none"}, has : HookSets,
            fail : {None, "register"} \cup OptionalHooks] :
        d.fail \in {None, "register"} \cup d.has}
    \cup {ProviderDef(defer, OptionalHooks, "boot") :
            defer \in {"instance", "false", "true", "promiseFalse", "promiseTrue"}}

\* The name provider number i of a batch registers in its register hook.
ProviderName(i) == IF i % 2 = 1 THEN "a" ELSE "b"

RECURSIVE BatchesUpTo(_)
BatchesUpTo(k) ==
    IF k = 0 THEN {<<>>}
    ELSE LET shorter == BatchesUpTo(k - 1) IN
         shorter \cup {Append(b, Provider(d, ProviderName(k), "f")) :
                         b \in {t \in shorter : Len(t) = k - 1},
                         d \in ProviderDefs}

\* JavaScript truthiness of what defer() returned: a promise is an object,
\* and objects are truthy.
Truthy(v) == v \in {"true", "promiseFalse", "promiseTrue"}

\* The defer test with the bug of skipping the providers that do not ask
\* to be deferred.
Deferred_Negated(d) == d.defer \notin {"none", "instance"} /\ ~Truthy(d.defer)

\* Provider.defer && Provider.defer()
Deferred(d) == d.defer \notin {"none", "instance"} /\ Truthy(d.defer)

Present(d, h) == h = "register" \/ h \in d.has

\* The first hook of the chain at a position > k that the provider has
\* (0: none is left).
NextIndex(d, chain, k) ==
    LET later == {j \in (k + 1)..Len(chain) : Present(d, chain[j])} IN
    IF later = {} THEN 0 ELSE CHOOSE j \in later : \A m \in later : j <= m

IndexOf(chain, h) == CHOOSE j \in 1..Len(chain) : chain[j] = h

Instantiated(i) == prov[i].pc # "defined" /\ prov[i].pc # "deferred"

Instances == {i \in 1..Len(batch) : Instantiated(i)}

\* Invoking a hook: it is recorded as started and is running until its
\* promise settles.
Started(p, h) == [p EXCEPT !.pc = h, !.ran = Append(@, h), !.running = @ \cup {h}]

\* The chain with the bug of a missing await: the next two hooks are
\* invoked back to back.
Advance_NoAwait(p, d, chain, k, finished) ==
    LET j == NextIndex(d, chain, k)
        m == IF j = 0 THEN 0 ELSE NextIndex(d, chain, j) IN
    IF j = 0 THEN [p EXCEPT !.pc = finished]
    ELSE IF m = 0 THEN Started(p, chain[j])
    ELSE Started(Started(p, chain[j]), chain[m])

\* A provider's async chain enters the chain at position k: it invokes the
\* next hook the provider has, or completes when none is left.
Advance(p, d, chain, k, finished) ==
    LET j == NextIndex(d, chain, k) IN
    IF j = 0 THEN [p EXCEPT !.pc = finished] ELSE Started(p, chain[j])

\* The class bindings with the bug of bind keeping a binding the name
\* already has (the first bind wins).
BoundBy_KeepFirst(S) ==
    [n \in Names |->
        LET B == {i \in S : batch[i].name = n} IN
        IF B = {} \/ classes[n] # None THEN classes[n]
        ELSE batch[CHOOSE i \in B : \A j \in B : i <= j].factory]

\* The class bindings after the register hooks of the providers in S ran
\* their synchronous part (services.bind(name, factory)), in the order of
\* the batch.
BoundBy(S) ==
    [n \in Names |->
        LET B == {i \in S : batch[i].name = n} IN
        IF B = {} THEN classes[n]
        ELSE batch[CHOOSE i \in B : \A j \in B : j <= i].factory]

\* One thing add does in a synchronous stretch: it calls the static defer
\* of definition i ("defer"), constructs it ("new"), or invokes a hook of
\* its instance ("invoke").
Step(op, i, h) == [op |-> op, provider |-> i, hook |-> h]

\* The sequences of ss, one after the other.
RECURSIVE Flatten(_)
Flatten(ss) == IF ss = <<>> THEN <<>> ELSE ss[1] \o Flatten(Tail(ss))

\* Provider.defer is there to be called.
HasStaticDefer(d) == d.defer \notin {"none", "instance"}

\* The callback of the reduce in instantiateProviders, run on definition i:
\* defer is called if the class has one, and unless it returned something
\* truthy the provider is constructed.
InstantiateSteps(i) ==
    (IF HasStaticDefer(batch[i]) THEN <<Step("defer", i, None)>> ELSE <<>>)
    \o (IF Deferred(batch[i]) THEN <<>> ELSE <<Step("new", i, None)>>)

\* The reduce with the bug of going through the definitions from the last
\* to the first (reduceRight).
Reduce_Right == Flatten([k \in 1..Len(batch) |-> InstantiateSteps(Len(batch) + 1 - k)])

\* service_providers.reduce(...): the definitions are gone through in
\* input order.
Reduce == Flatten([k \in 1..Len(batch) |-> InstantiateSteps(k)])

\* The array the reduce returned: the providers constructed, in the order
\* of construction.
ProviderInstances(steps) ==
    LET news == SelectSeq(steps, LAMBDA e : e.op = "new") IN
    [k \in 1..Len(news) |-> news[k].provider]

\* The map with the bug of running the callbacks from the last provider of
\* the array to the first.
MapSteps_Reversed(providers, after) ==
    Flatten([k \in 1..Len(providers) |->
               LET i == providers[Len(providers) + 1 - k] IN
               IF after[i].running = {} THEN <<>>
               ELSE <<Step("invoke", i, after[i].pc)>>])

\* providers.map(async provider => ...): the callback runs for each
\* provider of the array in turn, up to its first await; after[i] is the
\* provider once its callback has got there.
MapSteps(providers, after) ==
    Flatten([k \in 1..Len(providers) |->
               LET i == providers[k] IN
               IF after[i].running = {} THEN <<>>
               ELSE <<Step("invoke", i, after[i].pc)>>])

\* Services.instantiateProviders
InstantiateProviders(i) ==
    IF Deferred(batch[i]) THEN [prov[i] EXCEPT !.pc = "deferred"]
    ELSE [prov[i] EXCEPT !.pc = "new"]

\* Services.add up to its first await: instantiateProviders, then
\* registerProviders, whose map() runs every provider's callback up to
\* the first await.
Add ==
    /\ addState = "idle"
    /\ LET inst == [i \in 1..Len(batch) |-> InstantiateProviders(i)]
           deferred == {i \in 1..Len(batch) : inst[i].pc = "deferred"}
           after == [i \in 1..Len(batch) |->
                       IF i \in deferred THEN inst[i]
                       ELSE Advance(inst[i], batch[i], RegisterChain, 0, "registered")]
           notice(i) == LogEntry("Deferred loading", i, None)
       IN /\ LogInfo([k \in 1..Cardinality(deferred) |->
                        notice(CHOOSE i \in deferred :
                                 Cardinality({m \in deferred : m < i}) = k - 1)])
          /\ prov' = after
          /\ trace' = Reduce \o MapSteps(ProviderInstances(Reduce), after)
          /\ classes' = BoundBy({i \in 1..Len(batch) : after[i].pc = "register"})
    /\ addState' = "registering"
    /\ UNCHANGED <<singletonCallbacks, singletons, promises, invlog, calls, regs, stack, batch, earlier, other>>

\* The register chains with the bug of being cancelled once any chain of
\* the batch has failed.
RegisterHookSettles_Cancelled(i) ==
    LET h == prov[i].pc
        d == batch[i]
        p == [prov[i] EXCEPT !.running = @ \ {h}] IN
    /\ h \in RegisterHooks
    /\ \A j \in 1..Len(batch) : prov[j].pc # "regFailed"
    /\ IF d.fail = h
       THEN /\ prov' = [prov EXCEPT ![i] = [p EXCEPT !.pc = "regFailed"]]
            /\ classes' = classes
       ELSE LET q == Advance(p, d, RegisterChain, IndexOf(RegisterChain, h), "registered") IN
            /\ prov' = [prov EXCEPT ![i] = q]
            /\ classes' = IF q.pc = "register" THEN BoundBy({i}) ELSE classes
    /\ UNCHANGED <<singletonCallbacks, singletons, promises, invlog, calls, regs, stack>>
    /\ UNCHANGED <<logVars, batch, earlier, trace, other, addState>>

\* A register-phase hook of provider i settles and the provider's callback
\* in registerProviders continues.
RegisterHookSettles(i) ==
    LET h == prov[i].pc
        d == batch[i]
        p == [prov[i] EXCEPT !.running = @ \ {h}] IN
    /\ h \in RegisterHooks
    /\ IF d.fail = h
       THEN /\ prov' = [prov EXCEPT ![i] = [p EXCEPT !.pc = "regFailed"]]
            /\ classes' = classes
       ELSE LET q == Advance(p, d, RegisterChain, IndexOf(RegisterChain, h), "registered") IN
            /\ prov' = [prov EXCEPT ![i] = q]
            /\ classes' = IF q.pc = "register" THEN BoundBy({i}) ELSE classes
    /\ UNCHANGED <<singletonCallbacks, singletons, promises, invlog, calls, regs, stack>>
    /\ UNCHANGED <<logVars, batch, earlier, trace, other, addState>>

\* The register phase with the bug of waiting for the chains to settle
\* (Promise.allSettled) instead of to succeed.
RegisterPhaseSucceeded_Settled ==
    \A i \in Instances : prov[i].pc \in {"registered", "regFailed"}

\* The register phase with the bug of waiting for one chain (Promise.race)
\* instead of all.
RegisterPhaseSucceeded_Any ==
    \E i \in Instances : prov[i].pc = "registered"

\* Promise.all in registerProviders resolved
RegisterPhaseSucceeded == \A i \in Instances : prov[i].pc = "registered"

\* The register phase with the bug of rejecting only when every chain has
\* failed.
RegisterPhaseFailed_All ==
    /\ Instances # {}
    /\ \A i \in Instances : prov[i].pc = "regFailed"

\* The register phase with the bug of one barrier for the container: a
\* failed register chain of another add call rejects this one too.
RegisterPhaseFailed_AnyCall ==
    \/ \E i \in Instances : prov[i].pc = "regFailed"
    \/ \E j \in 1..Len(other.batch) : other.prov[j].pc = "regFailed"

\* Promise.all in registerProviders rejected
RegisterPhaseFailed == \E i \in Instances : prov[i].pc = "regFailed"

\* add rejecting with the bug of rolling back: the class bindings of the
\* names the batch's providers bind are removed.
AddRejects_RollingBack ==
    /\ addState = "registering"
    /\ RegisterPhaseFailed
    /\ addState' = "rejected"
    /\ classes' = [n \in Names |->
                      IF \E i \in Instances : batch[i].name = n THEN None ELSE classes[n]]
    /\ UNCHANGED <<singletonCallbacks, singletons, promises, invlog, calls, regs, stack>>
    /\ UNCHANGED <<logVars, batch, earlier, trace, other, prov>>

\* Services.add: the await on registerProviders throws
AddRejects ==
    /\ addState = "registering"
    /\ RegisterPhaseFailed
    /\ addState' = "rejected"
    /\ UNCHANGED <<logVars, registryVars, batch, earlier, trace, other, prov>>

\* bootProviders with the bug of skipping the whole boot chain of a
\* provider that has no boot hook.
BeginBoot_BootOnly ==
    /\ addState = "registering"
    /\ RegisterPhaseSucceeded
    /\ prov' = [i \in 1..Len(batch) |->
                  IF i \in Instances
                  THEN IF "boot" \in batch[i].has
                       THEN Advance(prov[i], batch[i], BootChain, 0, "booted")
                       ELSE [prov[i] EXCEPT !.pc = "booted"]
                  ELSE prov[i]]
    /\ trace' = trace \o MapSteps(ProviderInstances(trace), prov')
    /\ addState' = "booting"
    /\ UNCHANGED <<logVars, registryVars, batch, earlier, other>>

\* Services.add after registerProviders resolved: bootProviders, whose
\* map() runs every provider's callback up to the first await.
BeginBoot ==
    /\ addState = "registering"
    /\ RegisterPhaseSucceeded
    /\ prov' = [i \in 1..Len(batch) |->
                  IF i \in Instances
                  THEN Advance(prov[i], batch[i], BootChain, 0, "booted")
                  ELSE prov[i]]
    /\ trace' = trace \o MapSteps(ProviderInstances(trace), prov')
    /\ addState' = "booting"
    /\ UNCHANGED <<logVars, registryVars, batch, earlier, other>>

\* The boot chain with the bug of a missing try/catch: the failure
\* rejects add instead of being logged.
BootHookSettles_Propagating(i) ==
    LET h == prov[i].pc
        d == batch[i]
        p == [prov[i] EXCEPT !.running = @ \ {h}] IN
    /\ h \in BootHooks
    /\ IF d.fail = h
       THEN /\ prov' = [prov EXCEPT ![i] = [p EXCEPT !.pc = "bootFailed"]]
            /\ addState' = "rejected"
       ELSE /\ prov' = [prov EXCEPT ![i] =
                          Advance(p, d, BootChain, IndexOf(BootChain, h), "booted")]
            /\ addState' = addState
    /\ UNCHANGED <<logVars, registryVars, batch, earlier, trace, other>>

\* The boot chain with the bug of a try/catch around each hook: the
\* failure is logged and the chain goes on with the next hook.
BootHookSettles_Continuing(i) ==
    LET h == prov[i].pc
        d == batch[i]
        p == [prov[i] EXCEPT !.running = @ \ {h}] IN
    /\ h \in BootHooks
    /\ prov' = [prov EXCEPT ![i] =
                  Advance(p, d, BootChain, IndexOf(BootChain, h),
                          IF d.fail \in BootHooks THEN "bootFailed" ELSE "booted")]
    /\ IF d.fail = h
       THEN LogError(LogEntry("Boot Failed", i, None))
       ELSE UNCHANGED logVars
    /\ UNCHANGED <<registryVars, batch, earlier, trace, other, addState>>

\* A boot-phase hook of provider i settles and the provider's callback in
\* bootProviders continues, or its catch block logs the failure.
BootHookSettles(i) ==
    LET h == prov[i].pc
        d == batch[i]
        p == [prov[i] EXCEPT !.running = @ \ {h}] IN
    /\ h \in BootHooks
    /\ IF d.fail = h
       THEN /\ prov' = [prov EXCEPT ![i] = [p EXCEPT !.pc = "bootFailed"]]
            /\ LogError(LogEntry("Boot Failed", i, None))
       ELSE /\ prov' = [prov EXCEPT ![i] =
                          Advance(p, d, BootChain, IndexOf(BootChain, h), "booted")]
            /\ UNCHANGED logVars
    /\ UNCHANGED <<registryVars, batch, earlier, trace, other, addState>>

\* The boot phase with the bug of waiting for one chain (Promise.race)
\* instead of all.
BootPhaseDone_Any ==
    \E i \in Instances : prov[i].pc \in {"booted", "bootFailed"}

\* Promise.all in bootProviders resolved
BootPhaseDone == \A i \in Instances : prov[i].pc \in {"booted", "bootFailed"}

\* Services.add returns
AddResolves ==
    /\ addState = "booting"
    /\ BootPhaseDone
    /\ addState' = "resolved"
    /\ UNCHANGED <<logVars, registryVars, batch, earlier, trace, other, prov>>

\* ---------------------------------------------------------- registry spec
\* new Services(log_overrides)
InitRegistry ==
    /\ NewLog
    /\ classes = [n \in Names |-> None]
    /\ singletonCallbacks = [n \in Names |-> None]
    /\ singletons = [n \in Names |-> 0]
    /\ promises = <<>>
    /\ invlog = <<>>
    /\ calls = <<>>
    /\ regs = 0
    /\ stack = <<>>

\* An add call: the batch passed to it, the promise it returned, its
\* providers and what it did in its synchronous stretches.
AddCall(b, st, pv, tr) == [batch |-> b, addState |-> st, prov |-> pv, trace |-> tr]

\* add is not called a second time.
NoOtherAdd == AddCall(<<>>, "idle", <<>>, <<>>)

\* Nothing was added to another container before.
NoEarlierAdd == [done |-> FALSE, outcome |-> "idle", classes |-> [n \in Names |-> None]]

Init ==
    /\ InitRegistry
    /\ batch = <<>>
    /\ addState = "idle"
    /\ prov = <<>>
    /\ trace = <<>>
    /\ other = NoOtherAdd
    /\ earlier = NoEarlierAdd

Next ==
    \/ \E n \in Names, f \in Factories : Bind(n, f)
    \/ \E n \in Names, f \in Factories : Singleton(n, f)
    \/ \E n \in Names, v \in InstanceValues : Instance(n, v)
    \/ \E n \in Names, a \in Args : Get(n, a)
    \/ \E p \in 1..Len(promises), ok \in BOOLEAN : Settle(p, ok)

Spec == Init /\ [][Next]_vars

\* ------------------------------------------------------ dependency spec
\* A container whose factories may depend on other services.  While a
\* factory invocation is in its synchronous part nothing else runs.
NextDep ==
    \/ /\ stack = <<>>
       /\ \E n \in Names, f \in {"f"} \cup DependentFactories : Bind(n, f)
    \/ /\ stack = <<>>
       /\ \E n \in Names, f \in {"f"} \cup DependentFactories : Singleton(n, f)
    \/ /\ stack = <<>>
       /\ \E n \in Names, a \in Args : Get(n, a)
    \/ NestedGet
    \/ Return
    \/ /\ stack = <<>>
       /\ \E p \in 1..Len(promises), ok \in BOOLEAN : Settle(p, ok)
    \/ /\ stack = <<>>
       /\ \E p \in 1..Len(promises), v \in PropValues : SetTestProp(p, v)

SpecDep == Init /\ [][NextDep]_vars

\* ------------------------------------------------- self-dependency spec
\* A container whose singleton callbacks may, once resumed, ask for the
\* service they are building.
NextSelf ==
    \/ /\ stack = <<>>
       /\ \E n \in Names : Bind(n, "f")
    \/ /\ stack = <<>>
       /\ \E n \in Names, f \in {"f"} \cup SuspendingFactories : Singleton(n, f)
    \/ /\ stack = <<>>
       /\ \E n \in Names, a \in Args : Get(n, a)
    \/ \E p \in 1..Len(promises) : Resume(p)
    \/ NestedGet
    \/ Return
    \/ /\ stack = <<>>
       /\ \E p \in 1..Len(promises), ok \in BOOLEAN : Settle(p, ok)

SpecSelf == Init /\ [][NextSelf]_vars

\* --------------------------------------------------------- lifecycle spec
\* A fresh container and a batch of provider definitions about to be added.
InitAdd ==
    /\ InitRegistry
    /\ batch \in BatchesUpTo(MaxProviders)
    /\ addState = "idle"
    /\ prov = [i \in 1..Len(batch) |-> [pc |-> "defined", ran |-> <<>>, running |-> {}]]
    /\ trace = <<>>
    /\ other = NoOtherAdd
    /\ earlier = NoEarlierAdd

NextAdd ==
    \/ Add
    \/ \E i \in 1..Len(batch) : RegisterHookSettles(i)
    \/ AddRejects
    \/ BeginBoot
    \/ \E i \in 1..Len(batch) : BootHookSettles(i)
    \/ AddResolves

SpecAdd == InitAdd /\ [][NextAdd]_vars

\* The lifecycle when every hook that was invoked settles in the end, and
\* the continuations of add, which the event loop runs once the promise
\* they await has settled, are run.  Whether add is called at all is up to
\* the application.
HooksSettle ==
    /\ \A i \in 1..MaxProviders :
          /\ WF_vars(i \in 1..Len(batch) /\ RegisterHookSettles(i))
          /\ WF_vars(i \in 1..Len(batch) /\ BootHookSettles(i))
    /\ WF_vars(AddRejects)
    /\ WF_vars(BeginBoot)
    /\ WF_vars(AddResolves)

\* The definitions of the batches whose hooks settle: providers with no
\* optional hook, with a boot hook, with a failing register hook, and with
\* every hook, all succeeding or boot failing.
SettlingDefs ==
    {ProviderDef("none", {}, None),
     ProviderDef("none", {"boot"}, None),
     ProviderDef("none", {}, "register"),
     ProviderDef("none", OptionalHooks, None),
     ProviderDef("none", OptionalHooks, "boot")}

InitAddFair ==
    /\ InitRegistry
    /\ ~overrides.given
    /\ batch \in UNION {[1..k -> {Provider(d, "a", "f") : d \in SettlingDefs}] :
                          k \in 1..MaxProviders}
    /\ addState = "idle"
    /\ prov = [i \in 1..Len(batch) |-> [pc |-> "defined", ran |-> <<>>, running |-> {}]]
    /\ trace = <<>>
    /\ other = NoOtherAdd
    /\ earlier = NoEarlierAdd

SpecAddFair == InitAddFair /\ [][NextAdd]_vars /\ HooksSettle

\* ------------------------------------------------------- ordering spec
\* The same provider classes are added to a fresh container in one order
\* and, when that has finished, to another fresh container in another
\* order.
PermutedDefs ==
    {ProviderDef("none", {}, None),
     ProviderDef("none", OptionalHooks, None),
     ProviderDef("none", {}, "register")}

PermutedProviders ==
    {Provider(d, b[1], b[2]) :
        d \in PermutedDefs, b \in {<<"a", "f">>, <<"a", "g">>, <<"b", "f">>}}

\* add has settled and no hook is running.
Finished ==
    /\ addState \in {"resolved", "rejected"}
    /\ \A i \in 1..Len(batch) : prov[i].running = {}

InitPermuted ==
    /\ InitRegistry
    /\ ~overrides.given
    /\ batch \in UNION {[1..k -> PermutedProviders] : k \in 2..MaxProviders}
    /\ addState = "idle"
    /\ prov = [i \in 1..Len(batch) |-> [pc |-> "defined", ran |-> <<>>, running |-> {}]]
    /\ trace = <<>>
    /\ other = NoOtherAdd
    /\ earlier = NoEarlierAdd

\* The first add has finished: its outcome is kept, and the batch, in
\* another order, is about to be added to a new container.
AddPermuted ==
    /\ ~earlier.done
    /\ Finished
    /\ earlier' = [done |-> TRUE, outcome |-> addState, classes |-> classes]
    /\ \E s \in Permutations(1..Len(batch)) :
          /\ batch' = [i \in 1..Len(batch) |-> batch[s[i]]]
          /\ batch' # batch
    /\ addState' = "idle"
    /\ prov' = [i \in 1..Len(batch) |-> [pc |-> "defined", ran |-> <<>>, running |-> {}]]
    /\ trace' = <<>>
    /\ classes' = [n \in Names |-> None]
    /\ infoLog' = <<>> /\ errorLog' = <<>>
    /\ infoSink' = 0 /\ errorSink' = 0
    /\ console' = [info |-> 0, error |-> 0]
    /\ UNCHANGED <<overrides, suppress, infoFunc, errorFunc, other>>
    /\ UNCHANGED <<singletonCallbacks, singletons, promises, invlog, calls, regs, stack>>

NextPermuted ==
    \/ NextAdd
    \/ AddPermuted

SpecPermuted == InitPermuted /\ [][NextPermuted]_vars

\* ----------------------------------------------------- application spec
\* The application adds its providers and, once add has settled and no
\* hook is running any more, resolves services with get.
GetAfterAdd ==
    /\ addState \in {"resolved", "rejected"}
    /\ \A i \in 1..Len(batch) : prov[i].running = {}
    /\ Len(calls) < MaxGetsAfterAdd
    /\ \E n \in Names, a \in Args : Get(n, a)

NextApp ==
    \/ NextAdd
    \/ GetAfterAdd

SpecApp == InitAdd /\ [][NextApp]_vars

\* --------------------------------------------------------- rebinding spec
\* Provider classes that may bind one name to different factories are
\* added, and the application then resolves services with get.
SpecRebind == InitPermuted /\ [][NextApp]_vars

\* ------------------------------------------------------------ stall spec
\* The application registers a singleton and resolves services while add
\* is under way; no hook and no factory has to settle.
StallDefs ==
    {ProviderDef("none", {}, None),
     ProviderDef("none", {"boot"}, None),
     ProviderDef("none", {}, "register")}

StallProviders == {Provider(d, "a", "f") : d \in StallDefs}

InitStall ==
    /\ InitRegistry
    /\ ~overrides.given
    /\ batch \in UNION {[1..k -> StallProviders] : k \in 1..MaxProviders}
    /\ addState = "idle"
    /\ prov = [i \in 1..Len(batch) |-> [pc |-> "defined", ran |-> <<>>, running |-> {}]]
    /\ trace = <<>>
    /\ other = NoOtherAdd
    /\ earlier = NoEarlierAdd

\* The application registers its one singleton.
SingletonBeside ==
    /\ regs = 0
    /\ \E n \in Names : Singleton(n, "f")

\* A get call made at any moment of add.
GetBeside ==
    /\ Len(calls) <= MaxGetsAfterAdd
    /\ \E n \in Names : Get(n, 1)

NextStall ==
    \/ NextAdd
    \/ SingletonBeside
    \/ GetBeside
    \/ \E p \in 1..Len(promises), ok \in BOOLEAN : Settle(p, ok)

SpecStall == InitStall /\ [][NextStall]_vars

\* ------------------------------------------------------------- keys spec
\* Every operation of the container side by side: the application makes
\* one registration of any kind and resolves services while add is under
\* way, with factories and hooks that fail among them.
RegisterBeside ==
    /\ regs = 0
    /\ \E n \in Names, f \in {"f", "thrower"} :
          \/ Bind(n, f)
          \/ Singleton(n, f)
          \/ Instance(n, 1)

NextKeys ==
    \/ NextAdd
    \/ RegisterBeside
    \/ GetBeside
    \/ \E p \in 1..Len(promises), ok \in BOOLEAN : Settle(p, ok)

SpecKeys == InitStall /\ [][NextKeys]_vars

\* ---------------------------------------------------------- overlap spec
\* add is called twice on one container, the second time before the first
\* call has settled.  The lifecycle variables hold the call whose
\* continuation the event loop runs next, other holds the call that waits.
InitOverlap ==
    /\ InitRegistry
    /\ ~overrides.given
    /\ batch \in UNION {[1..k -> StallProviders] : k \in 1..MaxProviders}
    /\ addState = "idle"
    /\ prov = [i \in 1..Len(batch) |-> [pc |-> "defined", ran |-> <<>>, running |-> {}]]
    /\ trace = <<>>
    /\ \E b \in [1..1 -> StallProviders] :
          other = AddCall(b, "idle", [i \in 1..1 |-> [pc |-> "defined", ran |-> <<>>,
                                                      running |-> {}]], <<>>)
    /\ earlier = NoEarlierAdd

\* The event loop turns to the other add call.
Switch ==
    /\ other.batch # <<>>
    /\ batch' = other.batch
    /\ addState' = other.addState
    /\ prov' = other.prov
    /\ trace' = other.trace
    /\ other' = AddCall(batch, addState, prov, trace)
    /\ UNCHANGED <<logVars, registryVars, earlier>>

NextOverlap ==
    \/ NextAdd
    \/ Switch

SpecOverlap == InitOverlap /\ [][NextOverlap]_vars

\* ================================================================ claims
\* A step in which a get call was made, and the record of that call.
GetStep == Len(calls') = Len(calls) + 1
NewCall == calls'[Len(calls')]

\* The singleton-callback invocations for name n made by calls c..d.
SingletonInvocations(n, c, d) ==
    {k \in 1..Len(invlog) : /\ invlog[k].name = n
                            /\ invlog[k].via = "singleton"
                            /\ invlog[k].call \in c..d}

\* instance(n, _) was called after promise p was made.
InstanceSince(n, p) ==
    \E q \in (p + 1)..Len(promises) :
        promises[q].via = "instance" /\ promises[q].name = n

\* The promise stored by the latest instance(n, _) call (0: none).
LastInstance(n) ==
    LET S == {q \in 1..Len(promises) :
                promises[q].via = "instance" /\ promises[q].name = n} IN
    IF S = {} THEN 0 ELSE CHOOSE q \in S : \A r \in S : r <= q

\* C1: when get(n) invoked the singleton callback of a name that is not
\* class-bound and got its promise, every later get(n) of a still not
\* class-bound n (no instance(n) in between) returns that same promise, the
\* callers have the same outcome, and the callback was invoked exactly once.
C1_ConcurrentGetsShareOneInvocation ==
    \A c, d \in 1..Len(calls) :
        LET n == calls[c].name
            p == calls[c].result IN
        ( /\ c < d
          /\ calls[d].name = n
          /\ calls[c].path = "singleton"
          /\ p # 0
          /\ calls[d].path # "class"
          /\ ~InstanceSince(n, p) )
        => /\ calls[d].result = p
           /\ Outcome(d) = Outcome(c)
           /\ Cardinality(SingletonInvocations(n, c, d)) = 1

\* Two callers were awaiting the one promise of a singleton callback when
\* it resolved.
C1_Witness ==
    \E p \in 1..Len(promises) :
        /\ promises[p].via = "singleton"
        /\ promises[p].state = Resolved
        /\ promises[p].waiters >= 2
        /\ \E c, d \in 1..Len(calls) :
              c # d /\ calls[c].result = p /\ calls[d].result = p

\* Different class-path calls returned different promises, and resolved
\* to different objects; per name there are as many class invocations as
\* class-path calls.
C7_Independent ==
    /\ \A c, d \in 1..Len(calls) :
          (c # d /\ calls[c].path = "class" /\ calls[d].path = "class"
                 /\ calls[c].result # 0 /\ calls[d].result # 0)
          => /\ calls[c].result # calls[d].result
             /\ (Outcome(c).state = Resolved /\ Outcome(d).state = Resolved
                   => Outcome(c).value # Outcome(d).value)
    /\ \A n \in Names :
          Cardinality({k \in 1..Len(invlog) : invlog[k].name = n /\ invlog[k].via = "class"})
          = Cardinality({c \in 1..Len(calls) : calls[c].name = n /\ calls[c].path = "class"})

\* C7: every get(n, args) made while n is class-bound invokes the bound
\* factory exactly once with those args, stores nothing in singletons and
\* returns a promise no earlier call returned; two such calls yield two
\* different objects, also with identical args.
C7_BindInvokesPerGet ==
    /\ [][(GetStep /\ classes[NewCall.name] # None)
            => /\ Len(invlog') = Len(invlog) + 1
               /\ invlog'[Len(invlog')] =
                    Invocation(classes[NewCall.name], NewCall.name, NewCall.arg, "class")
               /\ singletons' = singletons
               /\ NewCall.result \notin 1..Len(promises)]_vars
    /\ []C7_Independent

\* Two get calls with the same args on a class-bound name resolved to two
\* different objects, and the name has no memoized promise.
C7_Witness ==
    \E c, d \in 1..Len(calls) :
        /\ c # d
        /\ calls[c].name = calls[d].name /\ calls[c].arg = calls[d].arg
        /\ calls[c].path = "class" /\ calls[d].path = "class"
        /\ Outcome(c).state = Resolved /\ Outcome(d).state = Resolved
        /\ Outcome(c).value # Outcome(d).value
        /\ singletons[calls[c].name] = 0

\* The get call of this step returned a promise already resolved to v and
\* no factory was invoked.
GetResolvesTo(v) ==
    /\ NewCall.result # 0
    /\ promises'[NewCall.result].state = Resolved
    /\ promises'[NewCall.result].value = v
    /\ invlog' = invlog

\* C8 as stated: after instance(n, v), get(n) resolves to v without
\* invoking a factory.
C8_Original ==
    [][(GetStep /\ LastInstance(NewCall.name) # 0)
         => GetResolvesTo(promises[LastInstance(NewCall.name)].value)]_vars

\* C8, amended: after instance(n, v), a get(n) made while n has no class
\* binding resolves to v (of the latest instance call) without invoking a
\* factory, whatever singleton callback is registered for n.
C8_InstanceWhenNotClassBound ==
    [][(GetStep /\ LastInstance(NewCall.name) # 0 /\ classes[NewCall.name] = None)
         => GetResolvesTo(promises[LastInstance(NewCall.name)].value)]_vars

\* A get returned the promise of instance(n, v) for a name that also has a
\* singleton callback, and no factory was ever invoked.
C8_Witness ==
    \E c \in 1..Len(calls) :
        /\ calls[c].path = "memo"
        /\ calls[c].result = LastInstance(calls[c].name)
        /\ Outcome(c).state = Resolved
        /\ Outcome(c).value \in InstanceValues
        /\ singletonCallbacks[calls[c].name] # None
        /\ invlog = <<>>

\* C9: a get(n) made while n has no class binding, no memoized promise and
\* no singleton callback rejects without a value, makes exactly one
\* Log.error call, and invokes nothing.
C9_MissingRejectsAndLogsOnce ==
    [][(/\ GetStep
        /\ classes[NewCall.name] = None
        /\ singletons[NewCall.name] = 0
        /\ singletonCallbacks[NewCall.name] = None)
         => /\ NewCall.result = 0
            /\ errorLog' = Append(errorLog,
                  LogEntry("does not exist in the container", 0, NewCall.name))
            /\ promises' = promises
            /\ invlog' = invlog]_vars

\* Two gets of unregistered names were rejected, with one error entry each.
C9_Witness ==
    /\ Len(calls) = 2
    /\ \A c \in 1..Len(calls) :
          calls[c].path = "missing" /\ Outcome(c).state = Rejected
    /\ Len(errorLog) = 2

\* C10: get(n) takes the first branch that applies: the class binding
\* (its factory is invoked, the memoized promise is neither returned nor
\* changed), else the memoized promise (returned, nothing invoked), else the
\* singleton callback (invoked).
C10_Precedence ==
    [][GetStep =>
        LET n == NewCall.name IN
        /\ classes[n] # None
             => /\ Len(invlog') = Len(invlog) + 1
                /\ invlog'[Len(invlog')].factory = classes[n]
                /\ invlog'[Len(invlog')].via = "class"
                /\ NewCall.result \notin 1..Len(promises)
                /\ singletons' = singletons
        /\ (classes[n] = None /\ singletons[n] # 0)
             => /\ NewCall.result = singletons[n]
                /\ invlog' = invlog
                /\ singletons' = singletons
        /\ (classes[n] = None /\ singletons[n] = 0 /\ singletonCallbacks[n] # None)
             => /\ Len(invlog') = Len(invlog) + 1
                /\ invlog'[Len(invlog')].factory = singletonCallbacks[n]
                /\ invlog'[Len(invlog')].via = "singleton"]_vars

\* One name has a class binding, a memoized promise and a singleton
\* callback at once: a get before the bind invoked the singleton callback,
\* whose promise is memoized, and a get after the bind invoked the class
\* factory instead of returning it.
C10_Witness ==
    \E n \in Names, c, d \in 1..Len(calls) :
        /\ classes[n] # None /\ singletons[n] # 0 /\ singletonCallbacks[n] # None
        /\ calls[c].name = n /\ calls[d].name = n
        /\ calls[c].path = "singleton" /\ calls[c].result = singletons[n]
        /\ calls[d].path = "class" /\ calls[d].result > singletons[n]

\* The hooks a provider of definition d has, in the order add runs them.
FullChain(d) == SelectSeq(RegisterChain \o BootChain, LAMBDA h : Present(d, h))

HooksRan(i, hooks) == SelectSeq(prov[i].ran, LAMBDA h : h \in hooks)

\* Some boot-phase hook of some provider has been invoked.
BootStarted == \E j \in 1..Len(batch) : HooksRan(j, BootHooks) # <<>>

\* Nothing is left to run: every continuation of add has run.
Quiescent == ~ENABLED NextAdd

ErrorsAbout(i) == {k \in 1..Len(errorLog) : errorLog[k].provider = i}
NoticesAbout(i) == {k \in 1..Len(infoLog) : infoLog[k].provider = i}

\* C2: when a register-phase hook of an instantiated provider fails, no
\* boot-phase hook of any provider is ever invoked, add never enters the
\* boot phase nor resolves, and once nothing is left to run add has rejected.
C2_RegisterFailureAbortsBoot ==
    (\E i \in Instances : batch[i].fail \in RegisterHooks)
    => /\ ~BootStarted
       /\ addState \notin {"booting", "resolved"}
       /\ Quiescent => addState = "rejected"

\* add rejected because the second provider's register chain failed; the
\* first provider, which has every boot hook, completed its register chain
\* and nothing is left to run.
C2_Witness ==
    /\ Len(batch) = 2
    /\ addState = "rejected"
    /\ prov[1].pc = "registered" /\ batch[1].has = OptionalHooks
    /\ prov[2].pc = "regFailed"
    /\ Quiescent

\* C3: when no register-phase hook of the batch fails, add never rejects,
\* and once nothing is left to run add has resolved; when add has resolved,
\* each provider with a failing boot-phase hook has exactly one error-log
\* entry, nothing else was logged as an error, and every other instantiated
\* provider ran its whole chain.
C3_BootFailuresIsolated ==
    (addState # "idle" /\ \A i \in Instances : batch[i].fail \notin RegisterHooks)
    => /\ addState # "rejected"
       /\ Quiescent => addState = "resolved"
       /\ addState = "resolved" =>
            /\ \A i \in Instances :
                  IF batch[i].fail \in BootHooks
                  THEN /\ Cardinality(ErrorsAbout(i)) = 1
                       /\ \A k \in ErrorsAbout(i) : errorLog[k].msg = "Boot Failed"
                  ELSE /\ prov[i].pc = "booted"
                       /\ prov[i].ran = FullChain(batch[i])
                       /\ prov[i].running = {}
                       /\ ErrorsAbout(i) = {}
            /\ \A k \in 1..Len(errorLog) : errorLog[k].provider \in Instances

\* add resolved although the first provider's boot hook failed; the failure
\* was logged and the second provider ran all six hooks.
C3_Witness ==
    /\ Len(batch) = 2
    /\ addState = "resolved"
    /\ batch[1].fail = "boot" /\ prov[1].pc = "bootFailed"
    /\ Len(errorLog) = 1
    /\ prov[2].pc = "booted" /\ Len(prov[2].ran) = 6

\* The register chain of provider i ran every register-phase hook the
\* provider has, all of them settled, and none failed.
RegisterChainCompleted(i) ==
    /\ HooksRan(i, RegisterHooks) = SelectSeq(RegisterChain, LAMBDA h : Present(batch[i], h))
    /\ prov[i].running \cap RegisterHooks = {}
    /\ prov[i].pc \notin RegisterHooks \cup {"new", "regFailed"}

\* C4: once any boot-phase hook of the batch has been invoked, the register
\* chain of every instantiated provider has completed successfully and the
\* name each of them binds in its register hook is in the registry.
C4_RegisterBeforeBoot ==
    BootStarted
    => \A i \in Instances :
          /\ RegisterChainCompleted(i)
          /\ batch[i].fail \notin RegisterHooks
          /\ classes[ProviderName(i)] # None

\* A boot-phase hook of one provider is running, both providers of the
\* batch are instantiated, and both their names are bound.
C4_Witness ==
    /\ Len(batch) = 2
    /\ Instances = {1, 2}
    /\ prov[1].pc \in BootHooks
    /\ HooksRan(2, BootHooks) = <<>>
    /\ classes["a"] # None /\ classes["b"] # None

\* C5: the hooks invoked so far for a provider are an initial part of
\* beforeRegister, register, afterRegister, beforeBoot, boot, afterBoot
\* without the hooks the provider lacks; at most one hook of a provider is
\* running, and it is the one invoked last.
C5_HookOrder ==
    \A i \in 1..Len(batch) :
        LET ran == prov[i].ran
            full == FullChain(batch[i]) IN
        /\ Len(ran) <= Len(full)
        /\ ran = SubSeq(full, 1, Len(ran))
        /\ Cardinality(prov[i].running) <= 1
        /\ prov[i].running # {} => prov[i].running = {ran[Len(ran)]}

\* The second provider ran all six hooks in order and is booted while the
\* first provider, invoked first, is still in its first boot-phase hook.
C5_Witness ==
    /\ Len(batch) = 2
    /\ prov[2].ran = RegisterChain \o BootChain
    /\ prov[2].pc = "booted"
    /\ prov[1].pc = "beforeBoot" /\ prov[1].running = {"beforeBoot"}

SettledStays ==
    \A p \in 1..Len(promises) :
        promises[p].state # Pending
        => /\ promises'[p].state = promises[p].state
           /\ promises'[p].value = promises[p].value

\* C11 as stated: once n has an entry in singletons, the entry stays what
\* it is and every later get(n) returns it.
C11_Original ==
    [][\A n \in Names :
          singletons[n] # 0
          => /\ singletons'[n] = singletons[n]
             /\ (GetStep /\ NewCall.name = n => NewCall.result = singletons[n])]_vars

\* C11: once n has an entry in singletons the entry is never removed and is
\* replaced only by instance(n, _); every get(n) made while n has no class
\* binding returns the promise that is the entry at that moment, and a
\* promise that has settled keeps its value or error.
C11_MemoEntryStays ==
    [][/\ SettledStays
       /\ \A n \in Names :
            singletons[n] # 0
            => /\ singletons'[n] # 0
               /\ (singletons'[n] # singletons[n]
                     => /\ Len(promises') = Len(promises) + 1
                        /\ singletons'[n] = Len(promises')
                        /\ promises'[singletons'[n]].via = "instance"
                        /\ promises'[singletons'[n]].name = n)
               /\ (GetStep /\ NewCall.name = n /\ classes[n] = None
                     => /\ NewCall.result = singletons[n]
                        /\ singletons'[n] = singletons[n])]_vars

\* The promise of a singleton callback was returned by the get that made it
\* and by a later get, is still the entry of its name, and has rejected.
C11_Witness ==
    \E c, d \in 1..Len(calls) :
        LET n == calls[c].name
            p == calls[c].result IN
        /\ c < d
        /\ calls[d].name = n
        /\ calls[c].path = "singleton"
        /\ calls[d].path = "memo"
        /\ p # 0
        /\ calls[d].result = p
        /\ singletons[n] = p
        /\ promises[p].state = Rejected

\* C12: the callback registered by singleton(n, f) is invoked at most once
\* for n, whatever its first invocation did (resolved, rejected or threw).
C12_SingletonInvokedAtMostOnce ==
    \A n \in Names :
        Cardinality(SingletonInvocations(n, 1, Len(calls))) <= 1

\* The mechanisms through which n is registered: a class binding, a
\* singleton binding, an instance supplied by instance(n, _).
Mechanisms(n) ==
    {m \in {"class", "singleton", "instance"} :
        \/ m = "class" /\ classes[n] # None
        \/ m = "singleton" /\ singletonCallbacks[n] # None
        \/ m = "instance" /\ singletons[n] # 0 /\ promises[singletons[n]].via = "instance"}

\* A step in which bind, singleton or instance was called.
RegStep == regs' = regs + 1

\* The registration of n that shadows the others when n is resolved.
Shadowing(n) ==
    IF classes[n] # None THEN "class"
    ELSE IF singletons[n] # 0 THEN "memo"
    ELSE IF singletonCallbacks[n] # None THEN "singleton"
    ELSE "missing"

\* C14 as stated: each name is registered through at most one mechanism.
C14_Original == \A n \in Names : Cardinality(Mechanisms(n)) <= 1

\* C14: bind, singleton and instance each write their own map at one name
\* and leave the other two maps as they are, so the mechanisms through
\* which a name was registered before stay (a name can have all three);
\* get changes neither the class bindings nor the singleton bindings, and
\* resolves through the class binding if there is one, else the memoized
\* promise or supplied instance, else the singleton binding.
C14_RegistrationsCoexist ==
    [][/\ RegStep =>
            \E n \in Names :
                /\ \A m \in Names \ {n} :
                      /\ classes'[m] = classes[m]
                      /\ singletonCallbacks'[m] = singletonCallbacks[m]
                      /\ singletons'[m] = singletons[m]
                /\ Mechanisms(n) \subseteq Mechanisms(n)'
                /\ \/ /\ classes'[n] # None
                      /\ singletonCallbacks'[n] = singletonCallbacks[n]
                      /\ singletons'[n] = singletons[n]
                   \/ /\ singletonCallbacks'[n] # None
                      /\ classes'[n] = classes[n]
                      /\ singletons'[n] = singletons[n]
                   \/ /\ Len(promises') = Len(promises) + 1
                      /\ singletons'[n] = Len(promises')
                      /\ promises'[singletons'[n]].via = "instance"
                      /\ classes'[n] = classes[n]
                      /\ singletonCallbacks'[n] = singletonCallbacks[n]
       /\ GetStep => /\ classes' = classes
                     /\ singletonCallbacks' = singletonCallbacks
                     /\ NewCall.path = Shadowing(NewCall.name)]_vars

\* One name has a class binding, a singleton binding and a supplied
\* instance at once, and a get of it went to the class factory.
C14_Witness ==
    \E n \in Names, c \in 1..Len(calls) :
        /\ Mechanisms(n) = {"class", "singleton", "instance"}
        /\ calls[c].name = n
        /\ calls[c].path = "class"

\* C17: every get(n, args) that went to the class factory made exactly one
\* invocation, with the args of that call; the promise it returned is the
\* one of that invocation, and the value it resolves to is the object that
\* invocation built from those args.
C17_ClassFactoryGetsCallArgs ==
    \A c \in 1..Len(calls) :
        calls[c].path = "class"
        => LET K == {k \in 1..Len(invlog) : invlog[k].call = c}
               p == calls[c].result IN
           /\ Cardinality(K) = 1
           /\ \A k \in K : /\ invlog[k].arg = calls[c].arg
                           /\ invlog[k].name = calls[c].name
                           /\ invlog[k].via = "class"
           /\ p # 0 => /\ promises[p].arg = calls[c].arg
                       /\ promises[p].name = calls[c].name
                       /\ promises[p].via = "class"
                       /\ \A d \in 1..Len(calls) : calls[d].result = p => d = c
                       /\ promises[p].state = Resolved => promises[p].value = p

\* Two gets of one class-bound name with different args resolved to two
\* objects, each built from the args of its own call.
C17_Witness ==
    \E c, d \in 1..Len(calls) :
        /\ calls[c].name = calls[d].name
        /\ calls[c].path = "class" /\ calls[d].path = "class"
        /\ calls[c].arg = 1 /\ calls[d].arg = 2
        /\ Outcome(c).state = Resolved /\ Outcome(d).state = Resolved
        /\ promises[Outcome(c).value].arg = 1
        /\ promises[Outcome(d).value].arg = 2

\* C19 as stated: once the register chain of some provider has failed, no
\* provider of the batch starts another hook.
C19_Original ==
    [][(\E i \in 1..Len(batch) : prov[i].pc = "regFailed")
         => \A j \in 1..Len(batch) : prov'[j].ran = prov[j].ran]_vars

\* C19: a register chain that failed stops at the hook that failed, but
\* the register chains of the other providers are not cancelled: once
\* nothing is left to run, every instantiated provider without a failing
\* register-phase hook has run its whole register chain; no chain goes on
\* to a boot-phase hook.
C19_FailedChainStopsOthersFinish ==
    (\E i \in 1..Len(batch) : prov[i].pc = "regFailed")
    => /\ \A i \in 1..Len(batch) :
             prov[i].pc = "regFailed"
             => /\ prov[i].ran # <<>>
                /\ prov[i].ran[Len(prov[i].ran)] = batch[i].fail
                /\ prov[i].running = {}
       /\ \A j \in 1..Len(batch) : prov[j].ran = HooksRan(j, RegisterHooks)
       /\ Quiescent
            => \A j \in Instances :
                  batch[j].fail \notin RegisterHooks
                  => RegisterChainCompleted(j) /\ prov[j].pc = "registered"

\* The first provider failed in beforeRegister, its first hook; the
\* second provider ran all three register-phase hooks, and nothing is left
\* to run.
C19_Witness ==
    /\ Len(batch) = 2
    /\ prov[1].pc = "regFailed" /\ prov[1].ran = <<"beforeRegister">>
    /\ prov[2].pc = "registered" /\ prov[2].ran = RegisterChain
    /\ addState = "rejected"
    /\ Quiescent

\* The boot-phase hooks a provider of definition d has, in chain order.
BootHooksOf(d) == SelectSeq(BootChain, LAMBDA h : Present(d, h))

\* C20: an instantiated provider without a boot hook still gets a boot
\* chain: the boot-phase hooks invoked for it are an initial part of its
\* beforeBoot, afterBoot (those it has, in that order), boot itself is
\* never invoked and never reported; unless one of its own hooks fails, no
\* error is logged about it, and when add has resolved it has run all of
\* them and is booted.
C20_BootChainWithoutBootHook ==
    \A i \in Instances :
        "boot" \notin batch[i].has
        => LET ran == HooksRan(i, BootHooks)
               own == BootHooksOf(batch[i]) IN
           /\ "boot" \notin {own[k] : k \in 1..Len(own)}
           /\ Len(ran) <= Len(own)
           /\ ran = SubSeq(own, 1, Len(ran))
           /\ batch[i].fail \notin BootHooks
                => /\ prov[i].pc # "bootFailed"
                   /\ ErrorsAbout(i) = {}
                   /\ addState = "resolved" => ran = own /\ prov[i].pc = "booted"

\* add resolved for a batch whose first provider has beforeBoot and
\* afterBoot but no boot hook and ran both, and whose second provider has
\* no boot-phase hook at all and is booted.
C20_Witness ==
    /\ Len(batch) = 2
    /\ addState = "resolved"
    /\ batch[1].has = {"beforeBoot", "afterBoot"}
    /\ HooksRan(1, BootHooks) = <<"beforeBoot", "afterBoot">>
    /\ prov[1].pc = "booted"
    /\ batch[2].has = {}
    /\ prov[2].ran = <<"register">>
    /\ prov[2].pc = "booted"

\* C15: with suppress = true no step calls overrides.info, overrides.error
\* or the console; with suppress = false and the overrides supplied, every
\* Log.info call is one call of overrides.info and every Log.error call is
\* one call of overrides.error, and the console is never called.
C15_SuppressAndOverride ==
    [][LET infos == Len(infoLog') - Len(infoLog)
           errors == Len(errorLog') - Len(errorLog) IN
       /\ (overrides.given /\ overrides.suppress)
            => /\ infoSink' = infoSink
               /\ errorSink' = errorSink
               /\ console' = console
               /\ console = [info |-> 0, error |-> 0]
       /\ (overrides.given /\ ~overrides.suppress /\ overrides.info)
            => /\ infoSink' = infoSink + infos
               /\ console'.info = 0
       /\ (overrides.given /\ ~overrides.suppress /\ overrides.error)
            => /\ errorSink' = errorSink + errors
               /\ console'.error = 0]_vars

\* A container with suppress = false and both overrides logged a deferred
\* provider, a boot failure and an unresolved get: each is one call of the
\* matching override, none of the console.
C15_Witness ==
    /\ overrides = LogOverrides(TRUE, FALSE, TRUE, TRUE)
    /\ \E k \in 1..Len(infoLog) : infoLog[k].msg = "Deferred loading"
    /\ \E k \in 1..Len(errorLog) : errorLog[k].msg = "Boot Failed"
    /\ \E k \in 1..Len(errorLog) : errorLog[k].msg = "does not exist in the container"
    /\ infoSink = Len(infoLog)
    /\ errorSink = Len(errorLog)
    /\ console = [info |-> 0, error |-> 0]

\* The get call made from inside factory invocation p (0: none yet).
NestedCallOf(p) ==
    LET C == {c \in 1..Len(calls) : calls[c].from = p} IN
    IF C = {} THEN 0 ELSE CHOOSE c \in C : TRUE

\* Call c is a get("b") of the application that invoked the class factory
\* needsA, whose own get("a") went to the singleton registered for "a" and
\* returned a promise.
GotDependentB(c) ==
    /\ calls[c].from = 0
    /\ calls[c].name = "b"
    /\ calls[c].path = "class"
    /\ calls[c].result # 0
    /\ promises[calls[c].result].by = "needsA"
    /\ promises[calls[c].result].dep > 0
    /\ calls[NestedCallOf(calls[c].result)].path \in {"singleton", "memo"}

\* C16, the state reached: any two get("b") calls returned different
\* promises awaiting one and the same promise of "a", the singleton callback
\* of "a" was invoked exactly once, and when both have resolved they are
\* different objects holding the same "a" object.
C16_DistinctBSharedA ==
    \A c, d \in 1..Len(calls) :
        (c # d /\ GotDependentB(c) /\ GotDependentB(d))
        => LET p == calls[c].result
               q == calls[d].result IN
           /\ p # q
           /\ promises[p].dep = promises[q].dep
           /\ promises[p].dep = singletons["a"]
           /\ Cardinality(SingletonInvocations("a", 1, Len(calls))) = 1
           /\ (promises[p].state = Resolved /\ promises[q].state = Resolved)
                => /\ promises[p].value # promises[q].value
                   /\ promises[p].holds = promises[q].holds
                   /\ promises[p].holds = promises[promises[p].dep].value

\* C16: with "a" a singleton and "b" bound to a factory that awaits
\* get("a"), every step leads to a state where the b values are distinct
\* and share the one a value, and a step that assigns the testProp of one
\* object changes the testProp of no other object.
C16_DependentOnSingleton ==
    [][/\ C16_DistinctBSharedA'
       /\ \A p, q \in 1..Len(promises) :
             (p # q /\ promises'[p].prop # promises[p].prop)
             => promises'[q].prop = promises[q].prop]_vars

\* Two get("b") calls resolved to two objects holding the one object of
\* the singleton "a", whose callback was invoked once; the first has
\* testProp 10 and the second testProp 20.
C16_Witness ==
    \E c, d \in 1..Len(calls) :
        /\ c < d /\ GotDependentB(c) /\ GotDependentB(d)
        /\ promises[calls[c].result].state = Resolved
        /\ promises[calls[d].result].state = Resolved
        /\ promises[calls[c].result].holds = singletons["a"]
        /\ promises[calls[d].result].holds = singletons["a"]
        /\ Cardinality(SingletonInvocations("a", 1, Len(calls))) = 1
        /\ promises[calls[c].result].prop = 10
        /\ promises[calls[d].result].prop = 20

\* This step invokes the singleton callback of n.
InvokesSingleton(n) ==
    /\ Len(invlog') = Len(invlog) + 1
    /\ invlog'[Len(invlog')].name = n
    /\ invlog'[Len(invlog')].via = "singleton"

\* The singleton callback invocation that made promise p is still in its
\* synchronous part.
Running(p) == \E k \in 1..Len(stack) : stack[k].promise = p

DistinctNames ==
    \A i, j \in 1..Len(batch) :
        (i # j /\ ~Deferred(batch[i]) /\ ~Deferred(batch[j]))
        => batch[i].name # batch[j].name

DeferYieldsTrue(d) == d.defer \in {"true", "promiseTrue"}

\* C21: once add has run its synchronous part, a provider definition is
\* skipped if and only if it has a static deferral predicate that yields
\* true; a definition with no predicate, or whose predicate yields false,
\* returned as a boolean or as a promise, is instantiated and its chain
\* has started.
C21_SkippedIffDeferYieldsTrue ==
    addState # "idle"
    => \A i \in 1..Len(batch) :
          /\ prov[i].pc = "deferred" <=> DeferYieldsTrue(batch[i])
          /\ ~DeferYieldsTrue(batch[i]) => i \in Instances /\ prov[i].ran # <<>>

\* The positions of the trace where add evaluated a deferral predicate or
\* constructed a provider, and those where it invoked a hook.
InstantiationSteps == {k \in 1..Len(trace) : trace[k].op \in {"defer", "new"}}
InvokeSteps == {k \in 1..Len(trace) : trace[k].op = "invoke"}

\* The providers whose register-phase hook add invoked in its first
\* synchronous stretch, in the order of the invocations.
FirstRegisterInvocations ==
    LET inv == SelectSeq(trace, LAMBDA e : e.op = "invoke" /\ e.hook \in RegisterHooks) IN
    [k \in 1..Len(inv) |-> inv[k].provider]

\* C22: within one add call the deferral predicates are evaluated and the
\* providers that are not deferred are constructed in input order (the
\* predicate of a definition right before its construction), each
\* predicate is evaluated and each definition constructed at most once,
\* every such step comes before the first hook invocation, and the
\* sequence of instances, which the register phase goes through, is the
\* input order without the deferred definitions.
C22_InstantiationInInputOrder ==
    addState # "idle"
    => /\ \A k, m \in InstantiationSteps :
             k < m => \/ trace[k].provider < trace[m].provider
                      \/ /\ trace[k].provider = trace[m].provider
                         /\ trace[k].op = "defer" /\ trace[m].op = "new"
       /\ \A i \in 1..Len(batch) :
             /\ Cardinality({k \in InstantiationSteps :
                               trace[k].op = "new" /\ trace[k].provider = i})
                = IF Deferred(batch[i]) THEN 0 ELSE 1
             /\ Cardinality({k \in InstantiationSteps :
                               trace[k].op = "defer" /\ trace[k].provider = i})
                = IF HasStaticDefer(batch[i]) THEN 1 ELSE 0
       /\ \A k \in InstantiationSteps, m \in InvokeSteps : k < m
       /\ LET instances == ProviderInstances(trace) IN
          /\ \A k, m \in 1..Len(instances) : k < m => instances[k] < instances[m]
          /\ {instances[k] : k \in 1..Len(instances)}
             = {i \in 1..Len(batch) : ~Deferred(batch[i])}
          /\ {instances[k] : k \in 1..Len(instances)} = Instances
          /\ FirstRegisterInvocations = instances
       /\ \A i \in 1..Len(batch) : prov[i].ran # <<>> => i \in Instances

\* add went through a batch of two: it evaluated the predicate of the
\* first, which returned false, constructed the first and then the second,
\* and only then invoked the first hook of the first and of the second.
C22_Witness ==
    /\ Len(batch) = 2
    /\ addState = "registering"
    /\ batch[1].defer = "false" /\ batch[2].defer = "none"
    /\ batch[2].has = {}
    /\ trace = <<Step("defer", 1, None), Step("new", 1, None), Step("new", 2, None),
                 Step("invoke", 1, "beforeRegister"), Step("invoke", 2, "register")>>

\* C23: a bind, singleton or instance call invokes no factory, makes no
\* get call, logs nothing and settles nothing; bind writes classes at one
\* name, singleton writes singletonCallbacks at one name, instance stores
\* one new, already resolved promise in singletons at one name; the other
\* two maps, and the entries of every other name, stay as they are.
C23_RegistrationOnlyStores ==
    [][RegStep =>
        /\ invlog' = invlog
        /\ calls' = calls
        /\ errorLog' = errorLog /\ infoLog' = infoLog
        /\ \A p \in 1..Len(promises) : promises'[p] = promises[p]
        /\ \/ /\ \E n \in Names : /\ classes'[n] # None
                                  /\ classes' = [classes EXCEPT ![n] = classes'[n]]
              /\ singletonCallbacks' = singletonCallbacks
              /\ singletons' = singletons
              /\ promises' = promises
           \/ /\ \E n \in Names : /\ singletonCallbacks'[n] # None
                                  /\ singletonCallbacks' =
                                       [singletonCallbacks EXCEPT ![n] = singletonCallbacks'[n]]
              /\ classes' = classes
              /\ singletons' = singletons
              /\ promises' = promises
           \/ /\ Len(promises') = Len(promises) + 1
              /\ promises'[Len(promises')].via = "instance"
              /\ promises'[Len(promises')].state = Resolved
              /\ \E n \in Names : singletons' = [singletons EXCEPT ![n] = Len(promises')]
              /\ classes' = classes
              /\ singletonCallbacks' = singletonCallbacks]_vars

\* bind, singleton and instance were each called once for "a": "a" is
\* registered through all three, "b" through none, and no factory was
\* invoked.
C23_Witness ==
    /\ regs = 3
    /\ Mechanisms("a") = {"class", "singleton", "instance"}
    /\ Mechanisms("b") = {}
    /\ singletons["b"] = 0
    /\ invlog = <<>>
    /\ calls = <<>>

\* A get of n was rejected before because nothing was registered under n.
MissedBefore(n) ==
    \E c \in 1..Len(calls) : calls[c].name = n /\ calls[c].path = "missing"

\* C24: a get(n) that finds nothing registered under n leaves classes,
\* singletonCallbacks and singletons as they are and makes no promise; a
\* get(n) made after such a failure, once n has been registered through
\* bind, singleton or instance, is resolved through that registration: it
\* is not rejected as missing, logs no error, and returns the promise of
\* the factory it invokes or of the supplied instance (a rejection only
\* when that factory throws).
C24_MissingNotMemoized ==
    [][GetStep =>
        LET n == NewCall.name IN
        /\ NewCall.path = "missing"
             => /\ classes' = classes
                /\ singletonCallbacks' = singletonCallbacks
                /\ singletons' = singletons
                /\ promises' = promises
        /\ (MissedBefore(n) /\ Mechanisms(n) # {})
             => /\ NewCall.path = Shadowing(n)
                /\ NewCall.path # "missing"
                /\ errorLog' = errorLog
                /\ NewCall.result = 0
                     => /\ Len(invlog') = Len(invlog) + 1
                        /\ invlog'[Len(invlog')].factory = "thrower"
                /\ (NewCall.path = "memo" /\ "class" \notin Mechanisms(n)
                      /\ "instance" \in Mechanisms(n))
                     => promises'[NewCall.result].state = Resolved]_vars

\* get("a") was rejected as missing; "a" was then registered as a
\* singleton, and the next get("a") invoked its callback and resolved.
C24_Witness ==
    \E c, d \in 1..Len(calls) :
        /\ c < d
        /\ calls[c].name = "a" /\ calls[d].name = "a"
        /\ calls[c].path = "missing"
        /\ calls[d].path = "singleton"
        /\ Outcome(c).state = Rejected
        /\ Outcome(d).state = Resolved
        /\ Len(errorLog) = 1
        /\ singletons["a"] = calls[d].result

\* Call c invoked the singleton callback of its name and got a promise,
\* which has rejected.
SingletonRejected(c) ==
    /\ calls[c].path = "singleton"
    /\ calls[c].result # 0
    /\ promises[calls[c].result].state = Rejected

\* C25 as stated: once the promise of the singleton callback of n has
\* rejected, every other get(n) made since the callback was invoked has
\* returned that promise and so rejects with the same error.
C25_Original ==
    \A c, d \in 1..Len(calls) :
        (c < d /\ SingletonRejected(c) /\ calls[d].name = calls[c].name)
        => /\ calls[d].result = calls[c].result
           /\ Outcome(d).state = Rejected

\* C25: once the promise of the singleton callback of n has rejected, no
\* singleton callback of n has been invoked since that invocation (no
\* retry), and every get(n) made since, before or after the rejection,
\* while n had no class binding and no instance was supplied for n in
\* between, has returned that same promise and rejects with its error.
C25_RejectionMemoized ==
    \A c \in 1..Len(calls) :
        SingletonRejected(c)
        => LET n == calls[c].name
               p == calls[c].result IN
           /\ SingletonInvocations(n, c, Len(calls)) = SingletonInvocations(n, c, c)
           /\ Cardinality(SingletonInvocations(n, c, c)) = 1
           /\ \A d \in (c + 1)..Len(calls) :
                 (calls[d].name = n /\ calls[d].path # "class" /\ ~InstanceSince(n, p))
                 => /\ calls[d].result = p
                    /\ calls[d].path = "memo"
                    /\ Outcome(d) = Outcome(c)
                    /\ Outcome(d).state = Rejected

\* The promise of a singleton callback rejected while two callers were
\* awaiting it; a third get, made after the rejection, returned the same
\* rejected promise, and the callback was invoked once.
C25_Witness ==
    \E p \in 1..Len(promises) :
        /\ promises[p].via = "singleton"
        /\ promises[p].state = Rejected
        /\ promises[p].waiters = 2
        /\ Cardinality({c \in 1..Len(calls) : calls[c].result = p}) = 3
        /\ singletons[promises[p].name] = p
        /\ Cardinality(SingletonInvocations(promises[p].name, 1, Len(calls))) = 1

\* The providers whose register hook, which calls services.bind, is
\* invoked in this step; within one step they are invoked in batch order.
BindingNow ==
    {i \in 1..Len(batch) : /\ "register" \notin {prov[i].ran[k] : k \in 1..Len(prov[i].ran)}
                           /\ "register" \in {prov'[i].ran[k] : k \in 1..Len(prov'[i].ran)}}

\* C26: a bind(n, f2) made when n is already class-bound replaces the
\* binding: after every step the factory stored for n is the one passed to
\* the latest bind(n, _) call (one factory per name, the earlier one is
\* gone), and a get(n) invokes the stored factory once and no other.
C26_BindOverwrites ==
    [][/\ \A n \in Names :
             LET B == {i \in BindingNow : batch[i].name = n} IN
             IF B = {} THEN classes'[n] = classes[n]
             ELSE /\ classes'[n] = batch[CHOOSE i \in B : \A j \in B : j <= i].factory
                  /\ classes'[n] \in Factories
       /\ (GetStep /\ classes[NewCall.name] # None)
            => /\ Len(invlog') = Len(invlog) + 1
               /\ invlog'[Len(invlog')].factory = classes[NewCall.name]
               /\ invlog'[Len(invlog')].name = NewCall.name
               /\ NewCall.path = "class"]_vars

\* The first provider bound "a" to f in its register hook, the second
\* provider, which has a beforeRegister hook, bound "a" to g later; the
\* get("a") made after add invoked g, and f was never invoked.
C26_Witness ==
    /\ Len(batch) = 2
    /\ batch[1].name = "a" /\ batch[1].factory = "f" /\ batch[1].has = {}
    /\ batch[2].name = "a" /\ batch[2].factory = "g" /\ batch[2].has = OptionalHooks
    /\ addState = "resolved"
    /\ classes["a"] = "g"
    /\ Len(invlog) = 1
    /\ invlog[1].factory = "g" /\ invlog[1].name = "a"

\* A boot-phase hook of provider i has been invoked and has not settled.
BootHookPending(i) == prov[i].running \cap BootHooks # {}

\* The promise add returned has settled.
AddSettled == addState \in {"resolved", "rejected"}

\* C27: nothing cancels and nothing times out.  As long as a boot-phase
\* hook of some provider has not settled, add has not settled either,
\* whatever the other providers' chains have done; as long as the promise
\* of a singleton callback is pending, every caller that got it from get
\* is pending, and the only step that settles it is the factory's own: no
\* get, no registration and no step of add does.
C27_NoCancellationNoTimeout ==
    /\ [](\A i \in 1..Len(batch) : BootHookPending(i) => ~AddSettled /\ addState = "booting")
    /\ [](\A c \in 1..Len(calls) :
             (calls[c].result # 0 /\ promises[calls[c].result].state = Pending)
             => Outcome(c).state = Pending)
    /\ [][\A p \in 1..Len(promises) :
             (promises[p].state = Pending /\ promises'[p].state # Pending)
             => /\ calls' = calls
                /\ regs' = regs
                /\ singletons' = singletons
                /\ prov' = prov
                /\ addState' = addState]_vars

\* The boot hook of the first provider has not settled and add is still
\* pending although the second provider is booted; the promise of the
\* singleton "b" is pending too, and the two callers that got it wait.
C27_Witness ==
    /\ Len(batch) = 2
    /\ BootHookPending(1)
    /\ prov[2].pc = "booted"
    /\ addState = "booting"
    /\ \E c, d \in 1..Len(calls) :
          /\ c < d
          /\ calls[c].name = "b" /\ calls[c].path = "singleton"
          /\ calls[d].result = calls[c].result
          /\ promises[calls[c].result].state = Pending
          /\ Outcome(c).state = Pending /\ Outcome(d).state = Pending

\* add was called, and every register chain of the batch will succeed.
RegisterWillSucceed ==
    /\ addState = "registering"
    /\ \A i \in Instances : batch[i].fail \notin RegisterHooks

\* add was called, and some register chain of the batch will fail.
RegisterWillFail ==
    /\ addState = "registering"
    /\ \E i \in Instances : batch[i].fail \in RegisterHooks

\* C28: when every hook that is invoked settles, a call of add settles:
\* it resolves when all register chains succeed (also when boot-phase hooks
\* fail), and it rejects when some register chain fails.
C28_AddSettlesWhenHooksSettle ==
    /\ RegisterWillSucceed ~> addState = "resolved"
    /\ RegisterWillFail ~> addState = "rejected"

\* Every hook has settled, the boot hook of the first provider by
\* rejecting, and add has resolved.
C28_Witness ==
    /\ Len(batch) = 2
    /\ addState = "resolved"
    /\ \A i \in 1..Len(batch) : prov[i].running = {}
    /\ batch[1].fail = "boot" /\ prov[1].pc = "bootFailed"
    /\ prov[1].ran = <<"beforeRegister", "register", "afterRegister", "beforeBoot", "boot">>
    /\ prov[2].pc = "booted"
    /\ prov[2].ran = RegisterChain \o BootChain

\* The boot-phase hook of provider i that fails has been invoked and has
\* settled.
BootHookFailed(i) ==
    /\ batch[i].fail \in BootHooks
    /\ batch[i].fail \in {prov[i].ran[k] : k \in 1..Len(prov[i].ran)}
    /\ batch[i].fail \notin prov[i].running

\* C29: once a boot-phase hook of a provider has thrown or rejected, the
\* hook that failed is the last hook invoked for that provider, none is
\* running, and exactly one Log.error call, 'Boot Failed', is about that
\* provider; about a provider none of whose boot-phase hooks has failed
\* there is no error-log call at all.
C29_BootFailureStopsChainLogsOnce ==
    \A i \in 1..Len(batch) :
        IF BootHookFailed(i)
        THEN /\ prov[i].pc = "bootFailed"
             /\ prov[i].ran[Len(prov[i].ran)] = batch[i].fail
             /\ prov[i].running = {}
             /\ Cardinality(ErrorsAbout(i)) = 1
             /\ \A k \in ErrorsAbout(i) : errorLog[k].msg = "Boot Failed"
        ELSE /\ prov[i].pc # "bootFailed"
             /\ ErrorsAbout(i) = {}

\* The beforeBoot hook of the first provider failed: its boot and
\* afterBoot hooks were never invoked, the one error-log entry is about
\* it, and the second provider ran all its hooks; add has resolved.
C29_Witness ==
    /\ Len(batch) = 2
    /\ batch[1].fail = "beforeBoot"
    /\ prov[1].ran = <<"beforeRegister", "register", "afterRegister", "beforeBoot">>
    /\ prov[1].pc = "bootFailed"
    /\ batch[2].has = OptionalHooks /\ batch[2].fail = None
    /\ prov[2].pc = "booted" /\ Len(prov[2].ran) = 6
    /\ Len(errorLog) = 1 /\ errorLog[1].provider = 1
    /\ addState = "resolved"

\* C30: a class binding of n is never removed, whatever is registered for
\* n before or after it: a singleton or instance call leaves it as it is.
\* While it exists every get(n) goes to the class factory bound at that
\* moment: it returns the new promise of that invocation, never the
\* memoized promise or the supplied instance, the singleton callback of n
\* is not invoked, and singletons is not written.
C30_ClassBindingShadowsForGood ==
    [][\A n \in Names :
          classes[n] # None
          => /\ classes'[n] # None
             /\ (classes'[n] # classes[n]
                   => /\ RegStep
                      /\ singletonCallbacks' = singletonCallbacks
                      /\ singletons' = singletons)
             /\ (GetStep /\ NewCall.name = n)
                  => /\ NewCall.path = "class"
                     /\ Len(invlog') = Len(invlog) + 1
                     /\ invlog'[Len(invlog')] = Invocation(classes[n], n, NewCall.arg, "class")
                     /\ NewCall.result # singletons[n] \/ NewCall.result = 0
                     /\ NewCall.result \notin 1..Len(promises)
                     /\ singletons' = singletons]_vars

\* "a" got a singleton binding, a class binding and a supplied instance;
\* the one get("a") invoked the class factory and resolved to the object it
\* built, not to the instance, and the singleton callback was not invoked.
C30_Witness ==
    /\ regs = 3
    /\ Mechanisms("a") = {"class", "singleton", "instance"}
    /\ Len(calls) = 1
    /\ calls[1].name = "a" /\ calls[1].path = "class"
    /\ Outcome(1).state = Resolved
    /\ Outcome(1).value \notin InstanceValues
    /\ Len(invlog) = 1 /\ invlog[1].via = "class"
    /\ promises[singletons["a"]].value \in InstanceValues

\* C31: when get(n, args) has invoked the singleton callback of n, every
\* later get(n, args2) that is resolved through the singleton mechanism
\* (n has no class binding and no instance was supplied for it) invokes
\* nothing, so that the callback never receives args2, and returns what
\* the first call returned: the value built from the first call's args.
C31_OnlyFirstArgsReachFactory ==
    \A c, d \in 1..Len(calls) :
        ( /\ c < d
          /\ calls[c].name = calls[d].name
          /\ calls[c].path = "singleton"
          /\ calls[d].path \in {"singleton", "memo"}
          /\ calls[d].result # 0 => promises[calls[d].result].via # "instance" )
        => /\ \A k \in 1..Len(invlog) : invlog[k].call # d
           /\ calls[d].path = "memo"
           /\ calls[d].result = calls[c].result
           /\ promises[calls[d].result].arg = calls[c].arg

\* Promise p is the one of a suspending singleton callback that resumed
\* and called get for its own name while the name had no class binding.
AskedForItself(p) ==
    /\ promises[p].by \in SuspendingFactories
    /\ promises[p].via = "singleton"
    /\ NestedCallOf(p) # 0
    /\ calls[NestedCallOf(p)].path # "class"

\* C32: a singleton callback of n that has suspended and then calls
\* get(n), with n resolved through the singleton mechanism (no class
\* binding), gets its own memoized promise: that get invokes nothing, the
\* callback has been invoked once, the promise is pending in every state
\* from then on, and so is every caller that got it.
C32_SelfAwaitDeadlocks ==
    \A p \in 1..Len(promises) :
        AskedForItself(p)
        => LET c == NestedCallOf(p)
               n == promises[p].name IN
           /\ calls[c].name = n
           /\ calls[c].path = "memo"
           /\ calls[c].result = p
           /\ \A k \in 1..Len(invlog) : invlog[k].call # c
           /\ Cardinality({k \in 1..Len(invlog) :
                             invlog[k].name = n /\ invlog[k].via = "singleton"}) = 1
           /\ promises[p].dep \in {0, p}
           /\ promises[p].state = Pending
           /\ \A d \in 1..Len(calls) : calls[d].result = p => Outcome(d).state = Pending

\* The singleton callback of a name resumed, asked for that name and is
\* now awaiting its own promise; two callers of the application hold that
\* promise, nothing is running, and the callback was invoked once.
C32_Witness ==
    \E p \in 1..Len(promises) :
        /\ AskedForItself(p)
        /\ promises[p].dep = p
        /\ stack = <<>>
        /\ singletons[promises[p].name] = p
        /\ Cardinality({d \in 1..Len(calls) : calls[d].result = p /\ calls[d].from = 0}) = 2
        /\ Len(invlog) = 1
        /\ ~ENABLED (\E ok \in BOOLEAN : Settle(p, ok))

\* Some register chain of the add call that is running will fail.
OwnRegisterFailure == \E i \in Instances : batch[i].fail \in RegisterHooks

\* C33: the register-before-boot barrier and the outcome of an add call
\* depend on that call's own providers only, whatever another add call on
\* the same container is doing or has failed at: a boot-phase hook of the
\* call has been invoked only when all its own register chains had
\* succeeded, the call is rejected only when one of its own register chains
\* fails, and once nothing of the call is left to run it has resolved if
\* none of its own register chains fails and rejected otherwise.
C33_BarrierPerAddCall ==
    /\ BootStarted => \A i \in Instances : RegisterChainCompleted(i)
    /\ BootStarted => ~OwnRegisterFailure
    /\ addState = "rejected" => OwnRegisterFailure
    /\ addState \in {"booting", "resolved"} => ~OwnRegisterFailure
    /\ (addState # "idle" /\ Quiescent)
         => addState = IF OwnRegisterFailure THEN "rejected" ELSE "resolved"

\* Two add calls overlap: the boot hook of the one call's provider is
\* running while the other call, already rejected because its first
\* provider's register hook failed, still has the register hook of its
\* second provider pending.
C33_Witness ==
    /\ other.addState = "booting"
    /\ Len(other.batch) = 1
    /\ other.prov[1].running = {"boot"}
    /\ Len(batch) = 2
    /\ addState = "rejected"
    /\ prov[1].pc = "regFailed"
    /\ prov[2].running = {"register"}

\* The add call that waits has resolved although a register chain of the
\* call that is running has failed.
C33_Independent ==
    /\ other.addState = "resolved"
    /\ addState = "rejected"

\* C34: no step of the container removes a key from classes,
\* singletonCallbacks or singletons: a name that has an entry in one of the
\* three maps has one in that map after every bind, singleton, instance,
\* get and step of add, failing ones included.
C34_KeysOnlyGrow ==
    [][\A n \in Names :
         /\ classes[n] # None => classes'[n] # None
         /\ singletonCallbacks[n] # None => singletonCallbacks'[n] # None
         /\ singletons[n] # 0 => singletons'[n] # 0]_vars

\* add has rejected after one of its providers bound a name, and a get has
\* failed in a singleton callback that throws: the class binding and the
\* callback are both still registered.
C34_Witness ==
    /\ addState = "rejected"
    /\ \E i \in Instances : prov[i].pc = "registered" /\ classes[batch[i].name] # None
    /\ \E c \in 1..Len(calls) :
         /\ calls[c].path = "singleton"
         /\ calls[c].result = 0
         /\ singletonCallbacks[calls[c].name] = "thrower"

\* The first hook of the chain that definition d has, as a sequence (empty
\* when it has none).
FirstPresent(d, chain) ==
    LET present == SelectSeq(chain, LAMBDA h : Present(d, h)) IN
    IF present = <<>> THEN <<>> ELSE <<present[1]>>

\* The invocations of the first present hooks of the chain, one for each
\* instance that has a hook of the chain, in input order.
FirstInvocations(chain) ==
    Flatten([i \in 1..Len(batch) |->
               IF i \in Instances /\ FirstPresent(batch[i], chain) # <<>>
               THEN <<Step("invoke", i, FirstPresent(batch[i], chain)[1])>>
               ELSE <<>>])

\* C35: the synchronous stretch of add that starts the register phase
\* invokes, after the instantiation, the first present register-phase hook
\* of every instance (beforeRegister, else register) in input order and
\* nothing else, so that when it ends every instance has had exactly that
\* hook started and no second one; the stretch that starts the boot phase
\* likewise invokes the first present boot-phase hook of every instance
\* that has one, in input order, and no second one.
C35_FirstHooksStartedInInputOrder ==
    [][/\ (addState = "idle" /\ addState' = "registering")
          => /\ SelectSeq(trace', LAMBDA e : e.op = "invoke")
                = FirstInvocations(RegisterChain)'
             /\ \A i \in Instances' :
                   prov'[i].ran = FirstPresent(batch[i], RegisterChain)
       /\ (addState = "registering" /\ addState' = "booting")
          => /\ trace' = trace \o FirstInvocations(BootChain)
             /\ \A i \in Instances :
                   /\ HooksRan(i, BootHooks) = <<>>
                   /\ HooksRan(i, BootHooks)' = FirstPresent(batch[i], BootChain)]_vars

\* The boot phase of a batch of two has just started: the first provider
\* has beforeBoot and the second only boot, and add invoked beforeBoot of
\* the first and then boot of the second, both still running, the first
\* provider's boot not yet started.
C35_Witness ==
    /\ Len(batch) = 2
    /\ addState = "booting"
    /\ "beforeBoot" \in batch[1].has /\ "boot" \in batch[1].has
    /\ batch[2].has = {"boot"}
    /\ SelectSeq(trace, LAMBDA e : e.op = "invoke" /\ e.hook \in BootHooks)
       = <<Step("invoke", 1, "beforeBoot"), Step("invoke", 2, "boot")>>
    /\ prov[1].running = {"beforeBoot"}
    /\ prov[2].running = {"boot"}
    /\ HooksRan(1, BootHooks) = <<"beforeBoot">>

====
